---------------------------- MODULE Spec2Model ----------------------------
(***************************************************************************)
(* Action dispatch, rate limiting and scheduling of gxf-discord-bot.       *)
(*                                                                         *)
(*   pkg/ratelimit      Limiter (token buckets per user/channel/guild and  *)
(*                      one global bucket)                                 *)
(*   internal/handlers  ActionManager (HandleMessage, HandleReaction,      *)
(*                      conditions, worker pool) and RateLimiter (sliding  *)
(*                      request log per key)                               *)
(*   pkg/action         Manager (handler matching)                         *)
(*                                                                         *)
(* Time is a natural number of clock ticks; time.Now() reads `now`.        *)
(***************************************************************************)
EXTENDS Integers, Sequences, FiniteSets, Bags, TLC

VARIABLES
    now,        \* the wall clock, read by time.Now()
    limiter,    \* ratelimit.Limiter: limits, windows and bucket maps
    hist,       \* per user: the AllowUser checks since the key was last fresh
    last,       \* the most recent Limiter operation, its arguments and result
    actions,    \* ActionManager.actions: the rules, in configuration order
    authEnabled,\* authMgr.Enabled()
    requests,   \* RateLimiter.requests: key -> times of the requests let through
    pool,       \* the worker pool: submitted tasks that have not run yet
    handled,    \* the most recent inbound event and what its handler did
    watch,      \* whether events and calls are being recorded
    events,     \* the handled events, in order (when watching)
    calls,      \* per recorded event: the session calls its task has made
    args,       \* the Allow call that concurrent goroutines make
    mu,         \* the goroutine holding the rate limiter's mutex, 0 when free
    pc,         \* per goroutine: where it is in its Allow call
    snapshot,   \* per goroutine: the time and limiter state it has read
    ret,        \* per goroutine: what its Allow call returned
    cron,       \* the cron engine: running flag, entries, next entry id
    inflight,   \* the bag of job callbacks that have begun and not yet returned
    sched,      \* scheduler.Scheduler: running flag, jobs map, call in progress
    slog,       \* the most recent scheduler operation and what it returned
    wp,         \* the pond pool: its bounds, the tasks on its workers, whether stopped
    sweep,      \* the rate limiter's cleanup: stop channel, channels, sweep goroutines
    cfg,        \* the configuration: the rule descriptors, in file order
    mgr,        \* which manager is built from cfg, and how far the start-up has come
    bot,        \* the Bot of pkg/bot: running flag, call in progress, last result
    auth        \* auth.Manager: the sessions, and the IsAuthenticated calls under way

varsL == <<limiter, hist, last>>

varsD == <<actions, authEnabled, requests, pool, handled, watch, events, calls>>

varsC == <<args, mu, pc, snapshot, ret>>

varsS == <<cron, inflight, sched, slog>>

varsP == <<wp, sweep, cfg, mgr, bot, auth>>

vars == <<now, limiter, hist, last, actions, authEnabled, requests, pool, handled,
          watch, events, calls, args, mu, pc, snapshot, ret, cron, inflight, sched,
          slog, wp, sweep, cfg, mgr, bot, auth>>

\* ------------------------------------------------------------------ bounds
MaxTime == 3
MaxLimit == 2
MaxWindow == 2
MaxCalls == 3
MaxEvents == 3
MaxQueue == 1
MaxGoroutines == 3
MaxEntries == 2
MaxRunning == 1
MaxLiveEntries == 1
MaxRules == 2
MaxSession == 1

Users == {"u1", "u2"}
Channels == {"c1", "c2"}
Guilds == {"g1"}

\* the key whose checks hist records
ObservedUsers == {"u1"}

\* the keys the Limiter is driven with
LimiterChannels == {"c1"}
LimiterGuilds == {"g1"}

EmptyMap == [x \in {} |-> x]

Put(m, k, v) == [x \in (DOMAIN m) \cup {k} |-> IF x = k THEN v ELSE m[x]]

Delete(m, k) == [x \in (DOMAIN m) \ {k} |-> m[x]]

\* ------------------------------------------------- pkg/ratelimit: bucket
NewBucket(limit, window, t) ==
    [tokens |-> limit, maxTokens |-> limit, window |-> window, lastReset |-> t]

bucket_reset_keep(b, t) == b

\* reset: refill when the window has passed since lastReset
bucket_reset(b, t) ==
    IF t - b.lastReset >= b.window
    THEN [b EXCEPT !.tokens = b.maxTokens, !.lastReset = t]
    ELSE b

bucket_allow_unchecked(b, t) ==
    LET r == bucket_reset(b, t)
    IN  [ok |-> r.tokens > 0, b |-> [r EXCEPT !.tokens = @ - 1]]

\* allow: reset, then take one token when one is left
bucket_allow(b, t) ==
    LET r == bucket_reset(b, t)
    IN  IF r.tokens > 0
        THEN [ok |-> TRUE, b |-> [r EXCEPT !.tokens = @ - 1]]
        ELSE [ok |-> FALSE, b |-> r]

\* ------------------------------------------------ pkg/ratelimit: Limiter
New ==
    [userLimit |-> 0, userWindow |-> 0, userBuckets |-> EmptyMap,
     channelLimit |-> 0, channelWindow |-> 0, channelBuckets |-> EmptyMap,
     guildLimit |-> 0, guildWindow |-> 0, guildBuckets |-> EmptyMap,
     globalLimit |-> 0, globalWindow |-> 0, globalBucket |-> EmptyMap]

SetUserLimit(l, limit, window) ==
    [l EXCEPT !.userLimit = limit, !.userWindow = window]

SetChannelLimit(l, limit, window) ==
    [l EXCEPT !.channelLimit = limit, !.channelWindow = window]

SetGuildLimit(l, limit, window) ==
    [l EXCEPT !.guildLimit = limit, !.guildWindow = window]

\* the global bucket is created when the limit is set
SetGlobalLimit(l, limit, window, t) ==
    [l EXCEPT !.globalLimit = limit, !.globalWindow = window,
              !.globalBucket = Put(EmptyMap, "global", NewBucket(limit, window, t))]

AllowUser_shared(l, userID, t) ==
    IF l.userLimit = 0 THEN [ok |-> TRUE, l |-> l]
    ELSE LET b == IF "shared" \in DOMAIN l.userBuckets
                  THEN l.userBuckets["shared"]
                  ELSE NewBucket(l.userLimit, l.userWindow, t)
             r == bucket_allow(b, t)
         IN  [ok |-> r.ok, l |-> [l EXCEPT !.userBuckets = Put(@, "shared", r.b)]]

AllowUser(l, userID, t) ==
    IF l.userLimit = 0 THEN [ok |-> TRUE, l |-> l]
    ELSE LET b == IF userID \in DOMAIN l.userBuckets
                  THEN l.userBuckets[userID]
                  ELSE NewBucket(l.userLimit, l.userWindow, t)
             r == bucket_allow(b, t)
         IN  [ok |-> r.ok, l |-> [l EXCEPT !.userBuckets = Put(@, userID, r.b)]]

AllowChannel(l, channelID, t) ==
    IF l.channelLimit = 0 THEN [ok |-> TRUE, l |-> l]
    ELSE LET b == IF channelID \in DOMAIN l.channelBuckets
                  THEN l.channelBuckets[channelID]
                  ELSE NewBucket(l.channelLimit, l.channelWindow, t)
             r == bucket_allow(b, t)
         IN  [ok |-> r.ok, l |-> [l EXCEPT !.channelBuckets = Put(@, channelID, r.b)]]

AllowGuild(l, guildID, t) ==
    IF l.guildLimit = 0 THEN [ok |-> TRUE, l |-> l]
    ELSE LET b == IF guildID \in DOMAIN l.guildBuckets
                  THEN l.guildBuckets[guildID]
                  ELSE NewBucket(l.guildLimit, l.guildWindow, t)
             r == bucket_allow(b, t)
         IN  [ok |-> r.ok, l |-> [l EXCEPT !.guildBuckets = Put(@, guildID, r.b)]]

AllowGlobal(l, t) ==
    IF l.globalLimit = 0 THEN [ok |-> TRUE, l |-> l]
    ELSE IF "global" \notin DOMAIN l.globalBucket THEN [ok |-> TRUE, l |-> l]
    ELSE LET r == bucket_allow(l.globalBucket["global"], t)
         IN  [ok |-> r.ok, l |-> [l EXCEPT !.globalBucket = Put(@, "global", r.b)]]

Limiter_Allow_noGuild(l, userID, channelID, guildID, t) ==
    LET u == AllowUser(l, userID, t)
    IN  IF ~u.ok THEN u
        ELSE LET c == AllowChannel(u.l, channelID, t)
             IN  IF ~c.ok THEN c ELSE AllowGlobal(c.l, t)

\* Allow: user, channel, guild, global in this order, stopping at the first
\* scope that denies
Limiter_Allow(l, userID, channelID, guildID, t) ==
    LET u == AllowUser(l, userID, t)
    IN  IF ~u.ok THEN u
        ELSE LET c == AllowChannel(u.l, channelID, t)
             IN  IF ~c.ok THEN c
                 ELSE LET g == AllowGuild(c.l, guildID, t)
                      IN  IF ~g.ok THEN g ELSE AllowGlobal(g.l, t)

ResetUser(l, userID) == [l EXCEPT !.userBuckets = Delete(@, userID)]

\* GetUserRemaining: -1 when unlimited, the limit when the key has no
\* bucket, else the tokens after the lazy reset (which is stored)
GetUserRemaining(l, userID, t) ==
    IF l.userLimit = 0 THEN [n |-> -1, l |-> l]
    ELSE IF userID \notin DOMAIN l.userBuckets THEN [n |-> l.userLimit, l |-> l]
    ELSE LET r == bucket_reset(l.userBuckets[userID], t)
         IN  [n |-> r.tokens, l |-> [l EXCEPT !.userBuckets = Put(@, userID, r)]]

Expired(m, t) == {k \in DOMAIN m : t - m[k].lastReset > m[k].window}

Sweep(m, t) == [k \in (DOMAIN m) \ Expired(m, t) |-> m[k]]

\* Cleanup: drop the user, channel and guild buckets idle past their window
Cleanup(l, t) ==
    [l EXCEPT !.userBuckets = Sweep(@, t),
              !.channelBuckets = Sweep(@, t),
              !.guildBuckets = Sweep(@, t)]

\* --------------------------------------- the Limiter driven by its callers
\* The limits are configured once, right after New, as pkg/bot does.
Configured(ul, uw, cl, gl, bl) ==
    LET a == SetUserLimit(New, ul, uw)
        b == SetChannelLimit(a, cl, MaxWindow)
        c == SetGuildLimit(b, gl, MaxWindow)
    IN  IF bl = 0 THEN c ELSE SetGlobalLimit(c, bl, MaxWindow, 0)

Goroutines == 1..MaxGoroutines

\* no goroutine is calling Allow
IdleC ==
    /\ args = [impl |-> "none"]
    /\ mu = 0
    /\ pc = [g \in Goroutines |-> "off"]
    /\ snapshot = [g \in Goroutines |-> <<>>]
    /\ ret = [g \in Goroutines |-> <<>>]

\* cron.New(): an engine that is not running and has no entries
cron_New == [running |-> FALSE, entries |-> <<>>, nextID |-> 1]

\* no scheduler has been started and no job added
IdleS ==
    /\ cron = cron_New
    /\ inflight = EmptyBag
    /\ sched = [running |-> FALSE, jobs |-> EmptyMap, pc |-> "idle"]
    /\ slog = [op |-> "New"]

\* pond.NewPool(n, pond.WithMaxCapacity(c)): n workers, a queue of c tasks
pond_NewPool(maxConcurrency, maxCapacity) ==
    [workers |-> maxConcurrency, capacity |-> maxCapacity, running |-> EmptyBag,
     stopped |-> FALSE, waiting |-> FALSE, drain |-> FALSE]

\* p.StopAndWait begins: no task is accepted any more, the caller waits; drain
\* observes whether there was a task to wait for
pond_Stop(p, queue) ==
    [p EXCEPT !.stopped = TRUE, !.waiting = TRUE,
              !.drain = (queue # <<>> \/ p.running # EmptyBag)]

\* no cleanup has been started
NoSweep ==
    [stop |-> 0, made |-> 0, closed |-> {}, g |-> <<>>,
     last |-> [op |-> "New", err |-> ""]]

\* the Bot as New returns it: not running, its session created
NoBot ==
    [running |-> FALSE, session |-> TRUE, pc |-> "idle",
     last |-> [op |-> "New", err |-> "", prev |-> "", logged |-> <<>>]]

\* an IsAuthenticated call that is not under way
NoCall == [pc |-> "off", user |-> "", seen |-> 0]

\* the auth manager as NewManager returns it: no session
NoAuth == [sessions |-> EmptyMap, g |-> [i \in Goroutines |-> NoCall]]

\* a pool whose workers are not looked at, and no cleanup
IdleP ==
    /\ wp = pond_NewPool(MaxQueue, MaxQueue)
    /\ sweep = NoSweep
    /\ cfg = <<>>
    /\ mgr = [impl |-> "none"]
    /\ bot = NoBot
    /\ auth = NoAuth

\* hist observes the keys in its domain
Observed(u) == u \in DOMAIN hist

IdleD ==
    /\ actions = <<>>
    /\ authEnabled = FALSE
    /\ requests = EmptyMap
    /\ pool = <<>>
    /\ handled = [kind |-> "none"]
    /\ watch = FALSE
    /\ events = <<>>
    /\ calls = <<>>

InitBucket ==
    /\ IdleS
    /\ IdleP
    /\ IdleC
    /\ IdleD
    /\ now = 0
    /\ \E ul \in 1..MaxLimit, uw \in 1..MaxWindow :
            limiter = SetUserLimit(New, ul, uw)
    /\ hist = [u \in ObservedUsers |-> <<>>]
    /\ last = [op |-> "New"]

InitL ==
    /\ IdleS
    /\ IdleP
    /\ IdleC
    /\ IdleD
    /\ now = 0
    /\ \E ul \in 0..MaxLimit, cl \in {0, 1}, gl \in {0, 1}, bl \in {0, 1} :
            limiter = Configured(ul, MaxWindow, cl, gl, bl)
    /\ hist = EmptyMap
    /\ last = [op |-> "New"]

Record(h, u, t, ok) ==
    IF u \in DOMAIN h THEN [h EXCEPT ![u] = Append(@, [at |-> t, ok |-> ok])] ELSE h

Forget(h, u) == IF u \in DOMAIN h THEN [h EXCEPT ![u] = <<>>] ELSE h

Room(u) == Observed(u) => Len(hist[u]) < MaxCalls

DoAllowUser(u) ==
    /\ Room(u)
    /\ LET r == AllowUser(limiter, u, now)
       IN  /\ limiter' = r.l
           /\ hist' = Record(hist, u, now, r.ok)
           /\ last' = [op |-> "AllowUser", user |-> u, res |-> r.ok]
    /\ UNCHANGED <<now, varsD, varsC, varsS, varsP>>

DoAllowChannel(c) ==
    /\ LET r == AllowChannel(limiter, c, now)
       IN  /\ limiter' = r.l
           /\ last' = [op |-> "AllowChannel", channel |-> c, res |-> r.ok]
    /\ UNCHANGED <<now, hist, varsD, varsC, varsS, varsP>>

DoAllowGuild(g) ==
    /\ LET r == AllowGuild(limiter, g, now)
       IN  /\ limiter' = r.l
           /\ last' = [op |-> "AllowGuild", guild |-> g, res |-> r.ok]
    /\ UNCHANGED <<now, hist, varsD, varsC, varsS, varsP>>

DoAllowGlobal ==
    /\ LET r == AllowGlobal(limiter, now)
       IN  /\ limiter' = r.l
           /\ last' = [op |-> "AllowGlobal", res |-> r.ok]
    /\ UNCHANGED <<now, hist, varsD, varsC, varsS, varsP>>

DoAllow(u, c, g) ==
    /\ Room(u)
    /\ LET r == Limiter_Allow(limiter, u, c, g, now)
       IN  /\ limiter' = r.l
           /\ hist' = Record(hist, u, now, AllowUser(limiter, u, now).ok)
           /\ last' = [op |-> "Allow", user |-> u, channel |-> c, guild |-> g,
                       res |-> r.ok]
    /\ UNCHANGED <<now, varsD, varsC, varsS, varsP>>

DoResetUser(u) ==
    /\ limiter' = ResetUser(limiter, u)
    /\ hist' = Forget(hist, u)
    /\ last' = [op |-> "ResetUser", user |-> u]
    /\ UNCHANGED <<now, varsD, varsC, varsS, varsP>>

DoGetUserRemaining(u) ==
    /\ LET r == GetUserRemaining(limiter, u, now)
       IN  /\ limiter' = r.l
           /\ last' = [op |-> "GetUserRemaining", user |-> u, n |-> r.n]
    /\ UNCHANGED <<now, hist, varsD, varsC, varsS, varsP>>

DoCleanup ==
    /\ limiter' = Cleanup(limiter, now)
    /\ last' = [op |-> "Cleanup"]
    /\ UNCHANGED <<now, hist, varsD, varsC, varsS, varsP>>

TickL ==
    /\ now < MaxTime
    /\ now' = now + 1
    /\ last' = [op |-> "Tick"]
    /\ UNCHANGED <<limiter, hist, varsD, varsC, varsS, varsP>>

NextL ==
    \/ \E u \in Users : DoAllowUser(u)
    \/ \E c \in LimiterChannels : DoAllowChannel(c)
    \/ \E g \in LimiterGuilds : DoAllowGuild(g)
    \/ DoAllowGlobal
    \/ \E u \in Users, c \in LimiterChannels, g \in LimiterGuilds : DoAllow(u, c, g)
    \/ TickL

SpecLimiter == InitL /\ [][NextL]_vars

NextBucket ==
    \/ \E u \in Users : DoAllowUser(u)
    \/ \E u \in Users : DoResetUser(u)
    \/ \E u \in Users : DoGetUserRemaining(u)
    \/ DoCleanup
    \/ TickL

SpecBucket == InitBucket /\ [][NextBucket]_vars

\* ------------------------------------- the limits changed while in use
DoSetUserLimit(n, w) ==
    /\ limiter' = SetUserLimit(limiter, n, w)
    /\ last' = [op |-> "SetUserLimit"]
    /\ UNCHANGED <<now, hist, varsD, varsC, varsS, varsP>>

DoSetChannelLimit(n, w) ==
    /\ limiter' = SetChannelLimit(limiter, n, w)
    /\ last' = [op |-> "SetChannelLimit"]
    /\ UNCHANGED <<now, hist, varsD, varsC, varsS, varsP>>

DoSetGuildLimit(n, w) ==
    /\ limiter' = SetGuildLimit(limiter, n, w)
    /\ last' = [op |-> "SetGuildLimit"]
    /\ UNCHANGED <<now, hist, varsD, varsC, varsS, varsP>>

\* a Limiter fresh from New; its limits are set, and set again, between checks
InitLimits ==
    /\ IdleS
    /\ IdleP
    /\ IdleC
    /\ IdleD
    /\ now = 0
    /\ limiter = New
    /\ hist = EmptyMap
    /\ last = [op |-> "New"]

NextLimits ==
    \/ \E n \in 0..MaxLimit : DoSetUserLimit(n, MaxWindow)
    \/ \E n \in {0, 1} : DoSetChannelLimit(n, MaxWindow)
    \/ \E n \in {0, 1} : DoSetGuildLimit(n, MaxWindow)
    \/ \E u \in ObservedUsers : DoAllowUser(u)
    \/ \E c \in LimiterChannels : DoAllowChannel(c)
    \/ \E g \in LimiterGuilds : DoAllowGuild(g)
    \/ DoCleanup
    \/ TickL

SpecLimits == InitLimits /\ [][NextLimits]_vars

\* ------------------------------------------------------------ C3, C4, C5
InFirstWindow(h, i) == h[i].at - h[1].at < limiter.userWindow

\* C3: for one user key with limit N > 0 and window W, with no request before
\* the first recorded one: every check within W of the first returns true
\* exactly when it is among the first N, and the first check made W or more
\* after the first one returns true again.
C3_WindowQuota ==
    \A u \in DOMAIN hist :
        LET h == hist[u]
        IN  limiter.userLimit > 0 =>
                \A i \in 1..Len(h) :
                    /\ InFirstWindow(h, i) => (h[i].ok = (i <= limiter.userLimit))
                    /\ (~InFirstWindow(h, i) /\ \A j \in 1..(i - 1) : InFirstWindow(h, j))
                          => h[i].ok

\* a key that used its N checks, was denied within the window and was allowed
\* again after it
C3_Witness ==
    \E u \in DOMAIN hist :
        LET h == hist[u]
            n == limiter.userLimit
        IN  /\ n > 0
            /\ Len(h) >= n + 2
            /\ \A i \in 1..(n + 1) : InFirstWindow(h, i)
            /\ ~h[n + 1].ok
            /\ ~InFirstWindow(h, n + 2)
            /\ h[n + 2].ok

\* C4: the combined Allow(user, channel, guild) returns true exactly when each
\* of the user, channel, guild and global checks, made alone on the state
\* before the call, returns true.
C4_CombinedIsAnd ==
    [][last'.op = "Allow" =>
          (last'.res = (/\ AllowUser(limiter, last'.user, now).ok
                        /\ AllowChannel(limiter, last'.channel, now).ok
                        /\ AllowGuild(limiter, last'.guild, now).ok
                        /\ AllowGlobal(limiter, now).ok))]_vars

\* a combined check denied although the user's own bucket still has tokens
C4_Witness ==
    /\ last.op = "Allow"
    /\ ~last.res
    /\ last.user \in DOMAIN limiter.userBuckets
    /\ limiter.userBuckets[last.user].tokens > 0

UserView(l, k, t) ==
    <<k \in DOMAIN l.userBuckets,
      IF k \in DOMAIN l.userBuckets THEN l.userBuckets[k] ELSE NewBucket(0, 0, 0),
      AllowUser(l, k, t).ok>>

\* C5: a check on one user key leaves every other user key as it was: its
\* bucket, and the outcome its next check would have.
C5_KeysIndependent ==
    [][last'.op \in {"AllowUser", "Allow"} =>
          \A k \in Users \ {last'.user} :
              UserView(limiter', k, now') = UserView(limiter, k, now)]_vars

\* one user is out of tokens while another still has its full quota
C5_Witness ==
    \E a, b \in DOMAIN limiter.userBuckets :
        /\ a # b
        /\ limiter.userBuckets[a].tokens = 0
        /\ limiter.userBuckets[b].tokens = limiter.userLimit - 1
        /\ last.op = "AllowUser" /\ last.user = a /\ ~last.res

\* ------------------------------------- internal/handlers: RateLimiter
\* Allow: keep the requests newer than now - window; deny when maxRequests of
\* them remain, else record this request
RateLimiter_Allow_offByOne(reqs, key, maxRequests, window, t) ==
    LET old == IF key \in DOMAIN reqs THEN reqs[key] ELSE <<>>
        After(reqTime) == reqTime > t - window
        validRequests == SelectSeq(old, After)
    IN  IF Len(validRequests) > maxRequests
        THEN [ok |-> FALSE, reqs |-> Put(reqs, key, validRequests)]
        ELSE [ok |-> TRUE, reqs |-> Put(reqs, key, Append(validRequests, t))]

RateLimiter_Allow(reqs, key, maxRequests, window, t) ==
    LET old == IF key \in DOMAIN reqs THEN reqs[key] ELSE <<>>
        After(reqTime) == reqTime > t - window
        validRequests == SelectSeq(old, After)
    IN  IF Len(validRequests) >= maxRequests
        THEN [ok |-> FALSE, reqs |-> Put(reqs, key, validRequests)]
        ELSE [ok |-> TRUE, reqs |-> Put(reqs, key, Append(validRequests, t))]

\* seconds; one clock tick is one second
CleanupAge == 3600

\* one pass of the cleanup goroutine: requests older than an hour go, and so
\* do the keys left without requests
RateLimiter_cleanup(reqs, t) ==
    LET After(reqTime) == reqTime > t - CleanupAge
        kept == {k \in DOMAIN reqs : SelectSeq(reqs[k], After) # <<>>}
    IN  [k \in kept |-> SelectSeq(reqs[k], After)]

\* ------------------------------------ internal/handlers: ActionManager
\* Strings that are matched are sequences of characters.
Prefix == <<"!">>
PingText == <<"!", "p", "i", "n", "g">>
HelloText == <<"h", "e", "l", "l", "o">>

BaseResponse ==
    [Type |-> "", Content |-> "", HasEmbed |-> FALSE, HasHTTP |-> FALSE,
     WebhookURL |-> "", DeleteAfter |-> 0]

BaseAction ==
    [Name |-> "", Type |-> "", Command |-> <<>>, Compiled |-> FALSE,
     Pattern |-> <<>>, Emoji |-> "", Schedule |-> "", Channels |-> <<>>,
     Guilds |-> <<>>, Response |-> BaseResponse,
     Conditions |-> <<>>, HasRateLimit |-> FALSE,
     RateLimit |-> [Requests |-> 0, Window |-> 0, Scope |-> "user"],
     RequireAuth |-> FALSE]

HasPrefix(content, p) ==
    Len(content) >= Len(p) /\ SubSeq(content, 1, Len(p)) = p

\* Pattern.MatchString for a pattern without metacharacters: the pattern
\* occurs somewhere in the content
MatchString(pattern, content) ==
    \E i \in 0..(Len(content) - Len(pattern)) :
        SubSeq(content, i + 1, i + Len(pattern)) = pattern

Range(q) == {q[i] : i \in 1..Len(q)}

\* the type test and trigger match of HandleMessage
MessageMatches(a, content) ==
    /\ a.Type \in {"message", "command"}
    /\ IF a.Type = "command" /\ a.Command # <<>>
       THEN HasPrefix(content, Prefix \o a.Command)
       ELSE a.Type = "message" /\ a.Compiled /\ MatchString(a.Pattern, content)

\* the type test and trigger match of HandleReaction
ReactionMatches(a, emoji) == a.Type = "reaction" /\ a.Emoji = emoji

compareValue(actual, expected, operator) ==
    IF operator = "not" THEN actual # expected ELSE actual = expected

checkCondition_failOpen(ev, condition, env) ==
    CASE condition.Type = "channel" ->
            compareValue(ev.ChannelID, condition.Value, condition.Operator)
      [] condition.Type = "user" ->
            compareValue(ev.UserID, condition.Value, condition.Operator)
      [] condition.Type = "role" ->
            IF ev.GuildID = "" THEN FALSE
            ELSE IF env.memberErr THEN TRUE
            ELSE condition.Value \in env.roles
      [] condition.Type = "permission" ->
            IF ev.GuildID = "" THEN FALSE
            ELSE IF env.permErr THEN TRUE
            ELSE env.perms > 0
      [] OTHER -> FALSE

checkCondition(ev, condition, env) ==
    CASE condition.Type = "channel" ->
            compareValue(ev.ChannelID, condition.Value, condition.Operator)
      [] condition.Type = "user" ->
            compareValue(ev.UserID, condition.Value, condition.Operator)
      [] condition.Type = "role" ->
            IF ev.GuildID = "" THEN FALSE
            ELSE IF env.memberErr THEN FALSE
            ELSE condition.Value \in env.roles
      [] condition.Type = "permission" ->
            IF ev.GuildID = "" THEN FALSE
            ELSE IF env.permErr THEN FALSE
            ELSE env.perms > 0
      [] OTHER -> FALSE

\* the session lookup a condition makes: the member's roles, or the caller's
\* permissions in the channel
LookupCalls(ev, condition) ==
    IF ev.GuildID = "" THEN <<>>
    ELSE IF condition.Type = "role"
    THEN <<[api |-> "GuildMember", dm |-> FALSE, to |-> ev.GuildID,
            content |-> ev.UserID]>>
    ELSE IF condition.Type = "permission"
    THEN <<[api |-> "UserChannelPermissions", dm |-> FALSE, to |-> ev.ChannelID,
            content |-> ev.UserID]>>
    ELSE <<>>

\* the loop over action.Conditions from condition i on: stops at the first
\* condition that fails; sent lists the lookups made
RECURSIVE ConditionLoop(_, _, _, _, _)
ConditionLoop(i, a, ev, env, sent) ==
    IF i > Len(a.Conditions) THEN [ok |-> TRUE, sent |-> sent]
    ELSE LET made == sent \o LookupCalls(ev, a.Conditions[i])
         IN  IF ~checkCondition(ev, a.Conditions[i], env)
             THEN [ok |-> FALSE, sent |-> made]
             ELSE ConditionLoop(i + 1, a, ev, env, made)

AuthCall(ev) ==
    [api |-> "ChannelMessageSend", dm |-> FALSE, to |-> ev.ChannelID,
     content |-> "auth-url"]

checkConditions_authLast(a, ev, env) ==
    LET cl == ConditionLoop(1, a, ev, env, <<>>)
    IN  IF a.Channels # <<>> /\ ev.ChannelID \notin Range(a.Channels)
        THEN [ok |-> FALSE, sent |-> <<>>]
        ELSE IF a.Guilds # <<>> /\ ev.GuildID \notin Range(a.Guilds)
        THEN [ok |-> FALSE, sent |-> <<>>]
        ELSE IF ~cl.ok THEN cl
        ELSE IF a.RequireAuth /\ ~authEnabled
        THEN [ok |-> FALSE, sent |-> cl.sent]
        ELSE IF a.RequireAuth /\ ~env.authed
        THEN [ok |-> FALSE, sent |-> cl.sent \o <<AuthCall(ev)>>]
        ELSE cl

\* checkConditions: channel and guild allow-lists, then the auth requirement
\* (which sends the auth URL to an unauthenticated caller), then the conditions;
\* sent lists the session calls made on the way
checkConditions(a, ev, env) ==
    IF a.Channels # <<>> /\ ev.ChannelID \notin Range(a.Channels)
    THEN [ok |-> FALSE, sent |-> <<>>]
    ELSE IF a.Guilds # <<>> /\ ev.GuildID \notin Range(a.Guilds)
    THEN [ok |-> FALSE, sent |-> <<>>]
    ELSE IF a.RequireAuth /\ ~authEnabled
    THEN [ok |-> FALSE, sent |-> <<>>]
    ELSE IF a.RequireAuth /\ ~env.authed
    THEN [ok |-> FALSE, sent |-> <<AuthCall(ev)>>]
    ELSE ConditionLoop(1, a, ev, env, <<>>)

\* The key is action.Name alone (global) or "Name:id"; a pair stands for the
\* formatted string.
RateKey(a, userID, channelID, guildID) ==
    CASE a.RateLimit.Scope = "user" -> <<a.Name, userID>>
      [] a.RateLimit.Scope = "channel" -> <<a.Name, channelID>>
      [] a.RateLimit.Scope = "guild" -> <<a.Name, guildID>>
      [] a.RateLimit.Scope = "global" -> <<a.Name>>
      [] OTHER -> <<a.Name, userID>>

checkRateLimit(reqs, userID, channelID, guildID, a, t) ==
    IF ~a.HasRateLimit THEN [ok |-> TRUE, reqs |-> reqs]
    ELSE RateLimiter_Allow(reqs, RateKey(a, userID, channelID, guildID),
                           a.RateLimit.Requests, a.RateLimit.Window, t)

Visit(i, outcome, made) == [rule |-> i, outcome |-> outcome, made |-> made]

RECURSIVE MessageLoop_noSkip(_, _, _, _, _, _, _)
MessageLoop_noSkip(i, ev, env, t, reqs, trail, sent) ==
    IF i > Len(actions)
    THEN [picked |-> 0, reqs |-> reqs, trail |-> trail, sent |-> sent]
    ELSE LET a == actions[i]
             cc == checkConditions(a, ev, env)
             rl == checkRateLimit(reqs, ev.UserID, ev.ChannelID, ev.GuildID, a, t)
         IN  IF a.Type \notin {"message", "command"}
             THEN MessageLoop_noSkip(i + 1, ev, env, t, reqs, trail, sent)
             ELSE IF ~cc.ok
             THEN MessageLoop_noSkip(i + 1, ev, env, t, reqs,
                                     Append(trail, Visit(i, "conditions", cc.sent)),
                                     sent \o cc.sent)
             ELSE IF ~rl.ok
             THEN MessageLoop_noSkip(i + 1, ev, env, t, rl.reqs,
                                     Append(trail, Visit(i, "ratelimit", cc.sent)),
                                     sent \o cc.sent)
             ELSE [picked |-> i, reqs |-> rl.reqs,
                   trail |-> Append(trail, Visit(i, "submitted", cc.sent)),
                   sent |-> sent \o cc.sent]

RECURSIVE MessageLoop_limitFirst(_, _, _, _, _, _, _)
MessageLoop_limitFirst(i, ev, env, t, reqs, trail, sent) ==
    IF i > Len(actions)
    THEN [picked |-> 0, reqs |-> reqs, trail |-> trail, sent |-> sent]
    ELSE LET a == actions[i]
             cc == checkConditions(a, ev, env)
             rl == checkRateLimit(reqs, ev.UserID, ev.ChannelID, ev.GuildID, a, t)
         IN  IF ~MessageMatches(a, ev.Content)
             THEN MessageLoop_limitFirst(i + 1, ev, env, t, reqs, trail, sent)
             ELSE IF ~rl.ok
             THEN MessageLoop_limitFirst(i + 1, ev, env, t, rl.reqs,
                                         Append(trail, Visit(i, "ratelimit", <<>>)), sent)
             ELSE IF ~cc.ok
             THEN MessageLoop_limitFirst(i + 1, ev, env, t, rl.reqs,
                                         Append(trail, Visit(i, "conditions", cc.sent)),
                                         sent \o cc.sent)
             ELSE [picked |-> i, reqs |-> rl.reqs,
                   trail |-> Append(trail, Visit(i, "submitted", cc.sent)),
                   sent |-> sent \o cc.sent]

\* The loop of HandleMessage from rule i on. trail lists the matching rules
\* the loop reached and what became of each; picked is the rule submitted to
\* the worker pool, 0 when none.
RECURSIVE MessageLoop(_, _, _, _, _, _, _)
MessageLoop(i, ev, env, t, reqs, trail, sent) ==
    IF i > Len(actions)
    THEN [picked |-> 0, reqs |-> reqs, trail |-> trail, sent |-> sent]
    ELSE LET a == actions[i]
             cc == checkConditions(a, ev, env)
             rl == checkRateLimit(reqs, ev.UserID, ev.ChannelID, ev.GuildID, a, t)
         IN  IF ~MessageMatches(a, ev.Content)
             THEN MessageLoop(i + 1, ev, env, t, reqs, trail, sent)
             ELSE IF ~cc.ok
             THEN MessageLoop(i + 1, ev, env, t, reqs,
                              Append(trail, Visit(i, "conditions", cc.sent)),
                              sent \o cc.sent)
             ELSE IF ~rl.ok
             THEN MessageLoop(i + 1, ev, env, t, rl.reqs,
                              Append(trail, Visit(i, "ratelimit", cc.sent)),
                              sent \o cc.sent)
             ELSE [picked |-> i, reqs |-> rl.reqs,
                   trail |-> Append(trail, Visit(i, "submitted", cc.sent)),
                   sent |-> sent \o cc.sent]

\* The loop of HandleReaction from rule i on.
RECURSIVE ReactionLoop(_, _, _, _, _)
ReactionLoop(i, ev, t, reqs, trail) ==
    IF i > Len(actions)
    THEN [picked |-> 0, reqs |-> reqs, trail |-> trail, sent |-> <<>>]
    ELSE LET a == actions[i]
             rl == checkRateLimit(reqs, ev.UserID, ev.ChannelID, ev.GuildID, a, t)
         IN  IF ~ReactionMatches(a, ev.Emoji)
             THEN ReactionLoop(i + 1, ev, t, reqs, trail)
             ELSE IF ~rl.ok
             THEN ReactionLoop(i + 1, ev, t, rl.reqs, Append(trail, Visit(i, "ratelimit", <<>>)))
             ELSE [picked |-> i, reqs |-> rl.reqs,
                   trail |-> Append(trail, Visit(i, "submitted", <<>>)), sent |-> <<>>]

Call(api, dm, to, content) == [api |-> api, dm |-> dm, to |-> to, content |-> content]

\* sendResponse: the calls made for a response, and whether the response is
\* rejected before any call. A dm goes to the channel created for the user.
sendResponse(channelID, userID, response) ==
    CASE response.Type = "text" ->
            [calls |-> <<Call("ChannelMessageSend", FALSE, channelID, response.Content)>>,
             err |-> FALSE]
      [] response.Type = "embed" ->
            IF response.HasEmbed
            THEN [calls |-> <<Call("ChannelMessageSendEmbed", FALSE, channelID, "embed")>>,
                  err |-> FALSE]
            ELSE [calls |-> <<>>, err |-> TRUE]
      [] response.Type = "reaction" -> [calls |-> <<>>, err |-> TRUE]
      [] response.Type = "dm" ->
            IF userID = "" THEN [calls |-> <<>>, err |-> TRUE]
            ELSE [calls |-> <<Call("UserChannelCreate", TRUE, userID, ""),
                              IF response.HasEmbed
                              THEN Call("ChannelMessageSendEmbed", TRUE, userID, "embed")
                              ELSE Call("ChannelMessageSend", TRUE, userID,
                                        response.Content)>>,
                  err |-> FALSE]
      [] response.Type = "http" ->
            IF response.HasHTTP
            THEN [calls |-> <<Call("http", FALSE, "", "")>>, err |-> FALSE]
            ELSE [calls |-> <<>>, err |-> TRUE]
      [] response.Type = "webhook" ->
            IF response.WebhookURL # ""
            THEN [calls |-> <<Call("webhook", FALSE, response.WebhookURL,
                                   response.Content)>>, err |-> FALSE]
            ELSE [calls |-> <<>>, err |-> TRUE]
      [] OTHER -> [calls |-> <<>>, err |-> TRUE]

\* executeAction: the response of the rule, sent for the triggering message
executeAction(channelID, userID, a) == sendResponse(channelID, userID, a.Response)

\* ------------------------------------------------------- configurations
Text(content) == [BaseResponse EXCEPT !.Type = "text", !.Content = content]

PingRule ==
    [BaseAction EXCEPT !.Name = "ping", !.Type = "command",
                       !.Command = <<"p", "i", "n", "g">>, !.Response = Text("Pong!")]

Limit(n, scope) == [Requests |-> n, Window |-> MaxWindow, Scope |-> scope]

\* the ping command alone
ScenarioPlain == <<PingRule>>

\* the ping command limited to 2 requests per window and user
ScenarioLimited ==
    <<[PingRule EXCEPT !.HasRateLimit = TRUE, !.RateLimit = Limit(2, "user")]>>

\* four rules, of which the first three match the same message
Rules ==
    <<[PingRule EXCEPT !.Channels = <<"c1">>, !.HasRateLimit = TRUE,
                       !.RateLimit = Limit(1, "user")],
      [BaseAction EXCEPT !.Name = "vip", !.Type = "message", !.Compiled = TRUE,
                         !.Pattern = <<"i", "n", "g">>, !.RequireAuth = TRUE,
                         !.Conditions = <<[Type |-> "user", Value |-> "u1",
                                           Operator |-> "equals"]>>,
                         !.Response = [BaseResponse EXCEPT !.Type = "dm",
                                                           !.Content = "vip"]],
      [BaseAction EXCEPT !.Name = "echo", !.Type = "message", !.Compiled = TRUE,
                         !.Pattern = <<"p", "i", "n">>, !.Response = Text("echo")],
      [BaseAction EXCEPT !.Name = "like", !.Type = "reaction", !.Emoji = "up",
                         !.Channels = <<"c1">>, !.Response = Text("thanks")]>>

\* rules gated by authentication, a role and a permission
GatedRules ==
    <<[PingRule EXCEPT !.Name = "staff", !.RequireAuth = TRUE,
                       !.Conditions = <<[Type |-> "role", Value |-> "r1",
                                         Operator |-> "equals"]>>,
                       !.Response = Text("staff")],
      [BaseAction EXCEPT !.Name = "vip", !.Type = "message", !.Compiled = TRUE,
                         !.Pattern = <<"i", "n", "g">>, !.RequireAuth = TRUE,
                         !.Conditions = <<[Type |-> "user", Value |-> "u1",
                                           Operator |-> "equals"]>>,
                         !.Response = Text("vip")],
      [BaseAction EXCEPT !.Name = "mod", !.Type = "message", !.Compiled = TRUE,
                         !.Pattern = <<"e", "l", "l">>,
                         !.Conditions = <<[Type |-> "permission", Value |-> "8",
                                           Operator |-> "equals"]>>,
                         !.Response = Text("mod")],
      [BaseAction EXCEPT !.Name = "like", !.Type = "reaction", !.Emoji = "up",
                         !.RequireAuth = TRUE, !.Response = Text("thanks")]>>

\* ------------------------------------------------------- inbound events
Contents == {PingText, HelloText}
Emojis == {"up", "down"}

MessageEvents ==
    [kind : {"message"}, Content : Contents, Emoji : {""}, ChannelID : Channels,
     GuildID : Guilds, UserID : Users]

ReactionEvents ==
    [kind : {"reaction"}, Content : {<<>>}, Emoji : Emojis, ChannelID : Channels,
     GuildID : Guilds, UserID : Users]

TriggerMatches(a, ev) ==
    IF ev.kind = "message" THEN MessageMatches(a, ev.Content)
    ELSE ReactionMatches(a, ev.Emoji)

\* some rule that ev triggers has a condition of this type
Asks(ev, type) ==
    \E i \in 1..Len(actions) :
        /\ TriggerMatches(actions[i], ev)
        /\ \E j \in 1..Len(actions[i].Conditions) : actions[i].Conditions[j].Type = type

\* What the collaborators would answer for the caller of ev: the auth manager
\* (authed) and the session (the member lookup and its roles, the permission
\* lookup and its bits). An answer no rule can ask for is left at its default.
Envs(ev) ==
    {env \in [authed : IF authEnabled /\ \E i \in 1..Len(actions) :
                              actions[i].RequireAuth /\ TriggerMatches(actions[i], ev)
                      THEN BOOLEAN ELSE {FALSE},
              memberErr : IF Asks(ev, "role") THEN BOOLEAN ELSE {TRUE},
              roles : IF Asks(ev, "role") THEN {{}, {"r1"}} ELSE {{}},
              permErr : IF Asks(ev, "permission") THEN BOOLEAN ELSE {TRUE},
              perms : IF Asks(ev, "permission") THEN {0, 8} ELSE {0}] :
        /\ env.memberErr => env.roles = {}
        /\ env.permErr => env.perms = 0}

\* ------------------------------------------------------------- actions
\* the closure submitted to the pool: the event and the rule it captured
Task(id, ev, i) == [id |-> id, ev |-> ev, rule |-> i]

\* p.Submit: a stopped pool rejects the task, a full queue makes the caller
\* wait (ok is whether it can go on), else the task is queued
pond_Submit(p, queue, task) ==
    IF p.stopped THEN [ok |-> TRUE, queue |-> queue]
    ELSE [ok |-> Len(queue) < p.capacity, queue |-> Append(queue, task)]

\* the effects of a handler whose loop ended with r
Handled(ev, env, r) ==
    LET id == IF watch THEN Len(events) + 1 ELSE 0
        rec == [kind |-> ev.kind, ev |-> ev, env |-> env, trail |-> r.trail,
                picked |-> r.picked, sent |-> r.sent]
    IN  /\ watch => Len(events) < MaxEvents
        /\ r.picked # 0 => pond_Submit(wp, pool, Task(id, ev, r.picked)).ok
        /\ requests' = r.reqs
        /\ pool' = IF r.picked # 0
                   THEN pond_Submit(wp, pool, Task(id, ev, r.picked)).queue
                   ELSE pool
        /\ handled' = rec
        /\ events' = IF watch
                     THEN Append(events, [at |-> now, ev |-> ev, picked |-> r.picked])
                     ELSE events
        /\ calls' = IF watch THEN Append(calls, r.sent) ELSE calls
        /\ UNCHANGED <<now, actions, authEnabled, watch, varsL, varsC, varsS, varsP>>

HandleMessage(ev, env) ==
    Handled(ev, env, MessageLoop(1, ev, env, now, requests, <<>>, <<>>))

HandleReaction(ev, env) ==
    Handled(ev, env, ReactionLoop(1, ev, now, requests, <<>>))

Without(q, k) == SubSeq(q, 1, k - 1) \o SubSeq(q, k + 1, Len(q))

\* a worker runs the k-th waiting task; the workers finish in any order
WorkerRun(k) ==
    /\ k \in 1..Len(pool)
    /\ LET task == pool[k]
           a == actions[task.rule]
           r == IF task.ev.kind = "message"
                THEN executeAction(task.ev.ChannelID, task.ev.UserID, a)
                ELSE sendResponse(task.ev.ChannelID, task.ev.UserID, a.Response)
       IN  /\ pool' = Without(pool, k)
           /\ calls' = IF task.id > 0
                       THEN [calls EXCEPT ![task.id] = @ \o r.calls]
                       ELSE calls
    /\ UNCHANGED <<now, actions, authEnabled, requests, handled, watch, events, varsL, varsC, varsS, varsP>>

TickD ==
    /\ now < MaxTime
    /\ now' = now + 1
    /\ UNCHANGED <<varsD, varsL, varsC, varsS, varsP>>

IdleL ==
    /\ limiter = New
    /\ hist = EmptyMap
    /\ last = [op |-> "New"]

InitD ==
    /\ IdleS
    /\ IdleP
    /\ IdleC
    /\ IdleL
    /\ now = 0
    /\ actions = Rules
    /\ authEnabled = TRUE
    /\ requests = EmptyMap
    /\ pool = <<>>
    /\ handled = [kind |-> "none"]
    /\ watch = FALSE
    /\ events = <<>>
    /\ calls = <<>>

InitScenario ==
    /\ IdleS
    /\ IdleP
    /\ IdleC
    /\ IdleL
    /\ now = 0
    /\ actions \in {ScenarioPlain, ScenarioLimited}
    /\ authEnabled = FALSE
    /\ requests = EmptyMap
    /\ pool = <<>>
    /\ handled = [kind |-> "none"]
    /\ watch = TRUE
    /\ events = <<>>
    /\ calls = <<>>

InitGate ==
    /\ IdleS
    /\ IdleP
    /\ IdleC
    /\ IdleL
    /\ now = 0
    /\ actions = GatedRules
    /\ authEnabled \in BOOLEAN
    /\ requests = EmptyMap
    /\ pool = <<>>
    /\ handled = [kind |-> "none"]
    /\ watch = FALSE
    /\ events = <<>>
    /\ calls = <<>>

NextD ==
    \/ \E ev \in MessageEvents : \E env \in Envs(ev) : HandleMessage(ev, env)
    \/ \E ev \in ReactionEvents : \E env \in Envs(ev) : HandleReaction(ev, env)
    \/ \E k \in 1..MaxQueue : WorkerRun(k)
    \/ TickD

SpecDispatch == InitD /\ [][NextD]_vars

SpecGate == InitGate /\ [][NextD]_vars

\* the scenario's callers send the ping command
ScenarioEvents == {ev \in MessageEvents : ev.Content = PingText}

NextScenario ==
    \/ \E ev \in ScenarioEvents : \E env \in Envs(ev) : HandleMessage(ev, env)
    \/ \E k \in 1..MaxQueue : WorkerRun(k)
    \/ TickD

SpecScenario == InitScenario /\ [][NextScenario]_vars

\* -------------------------------------------------- pkg/action: Manager
ToLower(c) == IF c = "P" THEN "p" ELSE c

RECURSIVE TrimLeft(_)
TrimLeft(str) ==
    IF str # <<>> /\ Head(str) = " " THEN TrimLeft(Tail(str)) ELSE str

\* strings.Fields(str)[0], lowered; <<>> when there is no field
RECURSIVE FirstField(_)
FirstField(str) ==
    IF str = <<>> \/ Head(str) = " " THEN <<>>
    ELSE <<ToLower(Head(str))>> \o FirstField(Tail(str))

CommandHandler_Matches(prefix, command, content) ==
    LET trimmed == TrimLeft(content)
    IN  IF ~HasPrefix(trimmed, prefix) THEN FALSE
        ELSE FirstField(TrimLeft(SubSeq(trimmed, Len(prefix) + 1, Len(trimmed))))
                 = command

\* the handler NewManager builds for a rule, applied to content
Handler_Matches(a, content) ==
    CASE a.Type = "command" -> CommandHandler_Matches(Prefix, a.Command, content)
      [] a.Type = "message" -> MatchString(a.Pattern, content)
      [] a.Type = "reaction" -> <<a.Emoji>> = content
      [] OTHER -> FALSE

\* the first rule of the Manager whose handler matches, 0 when none
ManagerMatch(content) ==
    IF \E i \in 1..Len(actions) : Handler_Matches(actions[i], content)
    THEN CHOOSE i \in 1..Len(actions) :
             /\ Handler_Matches(actions[i], content)
             /\ \A j \in 1..(i - 1) : ~Handler_Matches(actions[j], content)
    ELSE 0

ManagerContents == {PingText, <<"!", "P", "i", "n", "g">>, HelloText}

ManagerMessages ==
    [kind : {"message"}, Content : ManagerContents, Emoji : {""},
     ChannelID : Channels, GuildID : Guilds, UserID : Users]

\* what both handlers of the Manager do once the loop has returned: the
\* matched rule is logged and nothing is executed
ManagerHandled(ev, matched) ==
    /\ Len(events) < MaxEvents
    /\ handled' = [kind |-> "manager", ev |-> ev, matched |-> matched, picked |-> 0]
    /\ events' = Append(events, [at |-> now, ev |-> ev, picked |-> 0])
    /\ calls' = Append(calls, <<>>)
    /\ UNCHANGED <<now, actions, authEnabled, requests, pool, watch, varsL, varsC, varsS, varsP>>

Manager_HandleMessage(ev) == ManagerHandled(ev, ManagerMatch(ev.Content))

Manager_HandleReaction(ev) ==
    ManagerHandled(ev, IF \E i \in 1..Len(actions) : ReactionMatches(actions[i], ev.Emoji)
                       THEN CHOOSE i \in 1..Len(actions) :
                                /\ ReactionMatches(actions[i], ev.Emoji)
                                /\ \A j \in 1..(i - 1) :
                                       ~ReactionMatches(actions[j], ev.Emoji)
                       ELSE 0)

InitManager ==
    /\ IdleS
    /\ IdleP
    /\ IdleC
    /\ IdleL
    /\ now = 0
    /\ actions \in {ScenarioPlain, Rules}
    /\ authEnabled = FALSE
    /\ requests = EmptyMap
    /\ pool = <<>>
    /\ handled = [kind |-> "none"]
    /\ watch = TRUE
    /\ events = <<>>
    /\ calls = <<>>

NextManager ==
    \/ \E ev \in ManagerMessages : Manager_HandleMessage(ev)
    \/ \E ev \in ReactionEvents : Manager_HandleReaction(ev)

SpecManager == InitManager /\ [][NextManager]_vars

\* ---------------------------------- concurrent Allow calls on one key
\* rl.mu.Lock() / l.mu.Lock() returns once the mutex is free
CanLock_unguarded(g) == TRUE

CanLock(g) == mu = 0

ConcKey == <<"test-key">>
ConcUser == "u1"

\* Lock(), first statement of both Allow and AllowUser
ConcLock(g) ==
    /\ pc[g] = "start"
    /\ CanLock(g)
    /\ mu' = g
    /\ pc' = [pc EXCEPT ![g] = "locked"]
    /\ UNCHANGED <<now, args, snapshot, ret, varsL, varsD, varsS, varsP>>

\* time.Now() and the read of the key's requests, or of the user's bucket
ConcRead(g) ==
    /\ pc[g] = "locked"
    /\ snapshot' = [snapshot EXCEPT ![g] =
                        [at |-> now, requests |-> requests, limiter |-> limiter]]
    /\ pc' = [pc EXCEPT ![g] = "read"]
    /\ UNCHANGED <<now, args, mu, ret, varsL, varsD, varsS, varsP>>

\* the decision on what was read, and the write of the key's new state
ConcWrite(g) ==
    /\ pc[g] = "read"
    /\ IF args.impl = "RateLimiter"
       THEN LET r == RateLimiter_Allow(snapshot[g].requests, ConcKey,
                                       args.maxRequests, args.window, snapshot[g].at)
            IN  /\ requests' = r.reqs
                /\ ret' = [ret EXCEPT ![g] = [ok |-> r.ok, at |-> snapshot[g].at]]
                /\ UNCHANGED limiter
       ELSE LET r == AllowUser(snapshot[g].limiter, ConcUser, snapshot[g].at)
            IN  /\ limiter' = r.l
                /\ ret' = [ret EXCEPT ![g] = [ok |-> r.ok, at |-> snapshot[g].at]]
                /\ UNCHANGED requests
    /\ snapshot' = [snapshot EXCEPT ![g] = <<>>]
    /\ pc' = [pc EXCEPT ![g] = "written"]
    /\ UNCHANGED <<now, args, mu, hist, last, actions, authEnabled, pool, handled,
                   watch, events, calls, varsS, varsP>>

\* the deferred Unlock(), and the return
ConcUnlock(g) ==
    /\ pc[g] = "written"
    /\ mu' = 0
    /\ pc' = [pc EXCEPT ![g] = "done"]
    /\ UNCHANGED <<now, args, snapshot, ret, varsL, varsD, varsS, varsP>>

\* a pass of the RateLimiter's cleanup goroutine, made under the mutex
ConcCleanup ==
    /\ args.impl = "RateLimiter"
    /\ CanLock(0)
    /\ requests' = RateLimiter_cleanup(requests, now)
    /\ UNCHANGED <<now, varsC, varsL, actions, authEnabled, pool, handled, watch,
                   events, calls, varsS, varsP>>

\* K goroutines are about to call Allow for the same key with limit N
InitConc ==
    /\ IdleS
    /\ IdleP
    /\ IdleD
    /\ now = 0
    /\ hist = EmptyMap
    /\ last = [op |-> "New"]
    /\ \E impl \in {"RateLimiter", "Limiter"}, N \in 1..MaxLimit, K \in 1..MaxGoroutines :
           /\ args = [impl |-> impl, maxRequests |-> N, window |-> MaxWindow, K |-> K]
           /\ limiter = IF impl = "Limiter" THEN SetUserLimit(New, N, MaxWindow) ELSE New
           /\ pc = [g \in Goroutines |-> IF g <= K THEN "start" ELSE "off"]
    /\ mu = 0
    /\ snapshot = [g \in Goroutines |-> <<>>]
    /\ ret = [g \in Goroutines |-> <<>>]

NextConc ==
    \/ \E g \in Goroutines : ConcLock(g)
    \/ \E g \in Goroutines : ConcRead(g)
    \/ \E g \in Goroutines : ConcWrite(g)
    \/ \E g \in Goroutines : ConcUnlock(g)
    \/ ConcCleanup
    \/ TickD

SpecConc == InitConc /\ [][NextConc]_vars

\* ----------------------------------------------- the cron engine (robfig)
HourSeconds == 3600

Schedules == {"@every 1s", "@hourly", "invalid"}

\* the cron parser: whether the expression is accepted
ParseOK(schedule) == schedule \in {"@every 1s", "@hourly"}

\* Schedule.Next(t): the first activation after t
ScheduleNext(schedule, t) ==
    IF schedule = "@every 1s" THEN t + 1
    ELSE (t - (t % HourSeconds)) + HourSeconds

\* c.AddFunc: a parse error, or a new entry under the next id; the entry of a
\* running engine is scheduled at once
cron_AddFunc(c, schedule, job, t) ==
    IF ~ParseOK(schedule) THEN [err |-> TRUE, id |-> 0, c |-> c]
    ELSE [err |-> FALSE, id |-> c.nextID,
          c |-> [c EXCEPT !.nextID = @ + 1,
                          !.entries = Append(@, [id |-> c.nextID, schedule |-> schedule,
                                                  job |-> job, prev |-> 0,
                                                  next |-> IF c.running
                                                           THEN ScheduleNext(schedule, t)
                                                           ELSE 0])]]

\* c.Remove: the entry with this id goes
cron_Remove(c, id) ==
    LET Other(en) == en.id # id
    IN  [c EXCEPT !.entries = SelectSeq(@, Other)]

\* c.Start: nothing when running; else every entry is scheduled from now
cron_Start(c, t) ==
    IF c.running THEN c
    ELSE [c EXCEPT !.running = TRUE,
                   !.entries = [k \in 1..Len(c.entries) |->
                                   [c.entries[k] EXCEPT
                                       !.next = ScheduleNext(c.entries[k].schedule, t)]]]

\* c.Stop: the run loop ends; the context returned is done when inflight is empty
cron_Stop(c) == [c EXCEPT !.running = FALSE]

\* the run loop starts the job of a due entry and schedules the entry again
CronFire(k) ==
    /\ cron.running
    /\ k \in 1..Len(cron.entries)
    /\ cron.entries[k].next <= now
    /\ BagCardinality(inflight) < MaxRunning
    /\ inflight' = inflight (+) SetToBag({[id |-> cron.entries[k].id,
                                            job |-> cron.entries[k].job]})
    /\ cron' = [cron EXCEPT !.entries[k].prev = cron.entries[k].next,
                            !.entries[k].next = ScheduleNext(cron.entries[k].schedule, now)]
    /\ slog' = [slog EXCEPT !.op = "fire", !.err = "", !.schedule = "", !.jobID = <<>>,
                            !.job = cron.entries[k].id]
    /\ UNCHANGED <<now, sched, varsL, varsD, varsC, varsP>>

\* what the observer of the scheduler holds before any operation
NoLog ==
    [op |-> "New", err |-> "", schedule |-> "", jobID |-> <<>>, job |-> 0,
     calls |-> <<>>, logged |-> <<>>]

\* -------------------------------------------- pkg/scheduler: Scheduler
JobNames == {"test-job"}

JobID(id) == <<"job-", id>>

\* Start: an error when running
Scheduler_Start(sc) ==
    IF sc.running THEN [err |-> "scheduler already running", go |-> FALSE]
    ELSE [err |-> "", go |-> TRUE]

\* Stop: an error when not running
Scheduler_Stop(sc) ==
    IF ~sc.running THEN [err |-> "scheduler not running", go |-> FALSE]
    ELSE [err |-> "", go |-> TRUE]

\* slog after an operation: schedule and jobID are the arguments of AddJob and
\* RemoveJob
Ran(op, err) ==
    [slog EXCEPT !.op = op, !.err = err, !.schedule = "", !.jobID = <<>>]

SchedStart_noCron ==
    /\ sched.pc = "idle"
    /\ now < MaxTime
    /\ LET r == Scheduler_Start(sched)
       IN  IF r.go
           THEN /\ cron' = cron
                /\ sched' = [sched EXCEPT !.pc = "starting"]
                /\ slog' = slog
           ELSE /\ slog' = Ran("Start", r.err)
                /\ UNCHANGED <<cron, sched>>
    /\ UNCHANGED <<now, inflight, varsL, varsD, varsC, varsP>>

\* Start up to cron.Start(): runMu is taken, and kept when the call goes on
SchedStart ==
    /\ sched.pc = "idle"
    /\ now < MaxTime
    /\ LET r == Scheduler_Start(sched)
       IN  IF r.go
           THEN /\ cron' = cron_Start(cron, now)
                /\ sched' = [sched EXCEPT !.pc = "starting"]
                /\ slog' = slog
           ELSE /\ slog' = Ran("Start", r.err)
                /\ UNCHANGED <<cron, sched>>
    /\ UNCHANGED <<now, inflight, varsL, varsD, varsC, varsP>>

\* the rest of Start: running = true, and the return
SchedStarted ==
    /\ sched.pc = "starting"
    /\ sched' = [sched EXCEPT !.running = TRUE, !.pc = "idle"]
    /\ slog' = Ran("Start", "")
    /\ UNCHANGED <<now, cron, inflight, varsL, varsD, varsC, varsP>>

SchedStop_keepCron ==
    /\ sched.pc = "idle"
    /\ LET r == Scheduler_Stop(sched)
       IN  IF r.go
           THEN /\ cron' = cron
                /\ sched' = [sched EXCEPT !.pc = "stopping"]
                /\ slog' = slog
           ELSE /\ slog' = Ran("Stop", r.err)
                /\ UNCHANGED <<cron, sched>>
    /\ UNCHANGED <<now, inflight, varsL, varsD, varsC, varsP>>

\* Stop up to cron.Stop(): runMu is taken, and kept when the call goes on
SchedStop ==
    /\ sched.pc = "idle"
    /\ LET r == Scheduler_Stop(sched)
       IN  IF r.go
           THEN /\ cron' = cron_Stop(cron)
                /\ sched' = [sched EXCEPT !.pc = "stopping"]
                /\ slog' = slog
           ELSE /\ slog' = Ran("Stop", r.err)
                /\ UNCHANGED <<cron, sched>>
    /\ UNCHANGED <<now, inflight, varsL, varsD, varsC, varsP>>

\* <-ctx.Done(): the jobs that were running have returned
Drained == inflight = EmptyBag

\* the rest of Stop: the wait for the running jobs, running = false, the return
SchedStopped ==
    /\ sched.pc = "stopping"
    /\ Drained
    /\ sched' = [sched EXCEPT !.running = FALSE, !.pc = "idle"]
    /\ slog' = Ran("Stop", "")
    /\ UNCHANGED <<now, cron, inflight, varsL, varsD, varsC, varsP>>

SchedAddJob_storeFirst(name, schedule) ==
    /\ cron.nextID <= MaxEntries
    /\ now < MaxTime
    /\ LET r == cron_AddFunc(cron, schedule, name, now)
           job == [id |-> cron.nextID, name |-> name, schedule |-> schedule]
       IN  /\ sched' = [sched EXCEPT !.jobs = Put(@, JobID(cron.nextID), job)]
           /\ cron' = r.c
           /\ slog' = [Ran("AddJob", IF r.err THEN "invalid cron expression" ELSE "")
                           EXCEPT !.schedule = schedule]
    /\ UNCHANGED <<now, inflight, varsL, varsD, varsC, varsP>>

\* AddJob: the wrapped function is added to cron and the job stored under
\* "job-<entry id>"
SchedAddJob(name, schedule) ==
    /\ cron.nextID <= MaxEntries
    /\ now < MaxTime
    /\ LET r == cron_AddFunc(cron, schedule, name, now)
       IN  IF r.err
           THEN /\ slog' = [Ran("AddJob", "invalid cron expression")
                               EXCEPT !.schedule = schedule]
                /\ UNCHANGED <<cron, sched>>
           ELSE /\ cron' = r.c
                /\ sched' = [sched EXCEPT !.jobs = Put(@, JobID(r.id),
                                  [id |-> r.id, name |-> name, schedule |-> schedule])]
                /\ slog' = [Ran("AddJob", "") EXCEPT !.schedule = schedule]
    /\ UNCHANGED <<now, inflight, varsL, varsD, varsC, varsP>>

SchedRemoveJob_keepEntry(jobID) ==
    /\ IF jobID \notin DOMAIN sched.jobs
       THEN /\ slog' = [Ran("RemoveJob", "job not found") EXCEPT !.jobID = jobID]
            /\ UNCHANGED <<cron, sched>>
       ELSE /\ cron' = cron
            /\ sched' = [sched EXCEPT !.jobs = Delete(@, jobID)]
            /\ slog' = [Ran("RemoveJob", "") EXCEPT !.jobID = jobID]
    /\ UNCHANGED <<now, inflight, varsL, varsD, varsC, varsP>>

\* RemoveJob: an error for an unknown id; else the entry and the job go
SchedRemoveJob(jobID) ==
    /\ IF jobID \notin DOMAIN sched.jobs
       THEN /\ slog' = [Ran("RemoveJob", "job not found") EXCEPT !.jobID = jobID]
            /\ UNCHANGED <<cron, sched>>
       ELSE /\ cron' = cron_Remove(cron, sched.jobs[jobID].id)
            /\ sched' = [sched EXCEPT !.jobs = Delete(@, jobID)]
            /\ slog' = [Ran("RemoveJob", "") EXCEPT !.jobID = jobID]
    /\ UNCHANGED <<now, inflight, varsL, varsD, varsC, varsP>>

wrappedFn_unregister(job, failed) ==
    IF failed
    THEN [logged |-> <<[msg |-> "Job execution failed", name |-> job.job,
                        id |-> job.id]>>,
          cron |-> cron_Remove(cron, job.id),
          sched |-> [sched EXCEPT !.jobs = Delete(@, JobID(job.id))]]
    ELSE [logged |-> <<>>, cron |-> cron, sched |-> sched]

\* the function AddJob wraps around fn: the error of fn is logged
wrappedFn(job, failed) ==
    [logged |-> IF failed
                THEN <<[msg |-> "Job execution failed", name |-> job.job, id |-> job.id]>>
                ELSE <<>>,
     cron |-> cron, sched |-> sched]

\* a running job returns, with an error or without
SchedJobDone(job, failed) ==
    /\ BagIn(job, inflight)
    /\ LET r == wrappedFn(job, failed)
       IN  /\ cron' = r.cron
           /\ sched' = r.sched
           /\ slog' = [Ran("done", "") EXCEPT !.job = job.id, !.logged = r.logged]
    /\ inflight' = inflight (-) SetToBag({job})
    /\ UNCHANGED <<now, varsL, varsD, varsC, varsP>>

\* the clock advances once the run loop has started the jobs that are due
TickS ==
    /\ now < MaxTime
    /\ cron.running => \A k \in 1..Len(cron.entries) : cron.entries[k].next > now
    /\ now' = now + 1
    /\ UNCHANGED <<varsL, varsD, varsC, varsS, varsP>>

InitSched ==
    /\ IdleP
    /\ IdleC
    /\ IdleD
    /\ IdleL
    /\ now = 0
    /\ cron = cron_New
    /\ inflight = EmptyBag
    /\ sched = [running |-> FALSE, jobs |-> EmptyMap, pc |-> "idle"]
    /\ slog = NoLog

JobIDs == {JobID(id) : id \in 1..(MaxEntries + 1)}

NextSched ==
    \/ SchedStart
    \/ SchedStarted
    \/ SchedStop
    \/ SchedStopped
    \/ \E name \in JobNames, schedule \in Schedules : SchedAddJob(name, schedule)
    \/ \E jobID \in JobIDs : SchedRemoveJob(jobID)
    \/ \E k \in 1..MaxEntries : CronFire(k)
    \/ \E job \in BagToSet(inflight), failed \in BOOLEAN : SchedJobDone(job, failed)
    \/ TickS

SpecSched == InitSched /\ [][NextSched]_vars

\* the clock advances, the cron run loop starts the jobs that are due, the
\* jobs return, and a call of Start that has begun goes on
\* the same steps with fewer jobs registered
NextSchedLive ==
    \/ SchedStart
    \/ SchedStarted
    \/ SchedStop
    \/ SchedStopped
    \/ \E name \in JobNames, schedule \in Schedules :
          cron.nextID <= MaxLiveEntries /\ SchedAddJob(name, schedule)
    \/ \E jobID \in JobIDs : SchedRemoveJob(jobID)
    \/ \E k \in 1..MaxLiveEntries : CronFire(k)
    \/ \E job \in BagToSet(inflight), failed \in BOOLEAN : SchedJobDone(job, failed)
    \/ TickS

SpecSchedLive ==
    /\ InitSched /\ [][NextSchedLive]_vars
    /\ WF_vars(TickS)
    /\ WF_vars(SchedStarted)
    /\ WF_vars(\E job \in BagToSet(inflight), failed \in BOOLEAN : SchedJobDone(job, failed))
    /\ \A k \in 1..MaxLiveEntries : WF_vars(CronFire(k))

\* a job whose function asks the scheduler whether it is running
StatusJob == "status-job"

Asked(job) == "asked" \in DOMAIN job

\* IsRunning called from the function of a running job: runMu.RLock() is
\* granted only while no call of Start or Stop holds runMu
JobIsRunning(job) ==
    /\ BagIn(job, inflight)
    /\ job.job = StatusJob /\ ~Asked(job)
    /\ sched.pc = "idle"
    /\ inflight' = (inflight (-) SetToBag({job}))
                       (+) SetToBag({[id |-> job.id, job |-> job.job,
                                      asked |-> sched.running]})
    /\ slog' = Ran("IsRunning", "")
    /\ UNCHANGED <<now, cron, sched, varsL, varsD, varsC, varsP>>

\* the function of a job returns; that of the status job after its question
JobDone(job, failed) ==
    /\ job.job = StatusJob => Asked(job)
    /\ SchedJobDone(job, failed)

NextStop ==
    \/ SchedStart
    \/ SchedStarted
    \/ SchedStop
    \/ SchedStopped
    \/ \E name \in JobNames \cup {StatusJob} :
          cron.nextID <= MaxLiveEntries /\ SchedAddJob(name, "@every 1s")
    \/ \E k \in 1..MaxLiveEntries : CronFire(k)
    \/ \E job \in BagToSet(inflight) : JobIsRunning(job)
    \/ \E job \in BagToSet(inflight), failed \in BOOLEAN : JobDone(job, failed)
    \/ TickS

\* every call that has begun goes on when it can, and so does the function
\* of every running job: its own work ends
SpecStop ==
    /\ InitSched /\ [][NextStop]_vars
    /\ WF_vars(TickS)
    /\ WF_vars(SchedStarted)
    /\ WF_vars(SchedStopped)
    /\ WF_vars(\E job \in BagToSet(inflight) : JobIsRunning(job))
    /\ WF_vars(\E job \in BagToSet(inflight), failed \in BOOLEAN : JobDone(job, failed))

\* ------------------------------- internal/handlers: the scheduled rules
ScheduledRules ==
    <<[BaseAction EXCEPT !.Name = "digest", !.Type = "scheduled",
                         !.Schedule = "@every 1s", !.Channels = <<"c1", "c2">>,
                         !.Response = Text("digest")],
      [BaseAction EXCEPT !.Name = "broken", !.Type = "scheduled",
                         !.Schedule = "invalid", !.Channels = <<"c1">>,
                         !.Response = Text("broken")],
      PingRule>>

\* the loop of StartScheduler: every scheduled rule with a schedule is added
\* to cron, whatever cron already holds; a parse error is logged
RECURSIVE StartScheduler_loop(_, _, _, _)
StartScheduler_loop(i, c, t, logged) ==
    IF i > Len(actions) THEN [cron |-> c, logged |-> logged]
    ELSE LET a == actions[i]
             r == cron_AddFunc(c, a.Schedule, a.Name, t)
         IN  IF ~(a.Type = "scheduled" /\ a.Schedule # "")
             THEN StartScheduler_loop(i + 1, c, t, logged)
             ELSE IF r.err
             THEN StartScheduler_loop(i + 1, c, t,
                      Append(logged, [msg |-> "Failed to schedule action",
                                      action |-> a.Name, channel |-> ""]))
             ELSE StartScheduler_loop(i + 1, r.c, t, logged)

\* StartScheduler: the rules are added, then cron is started; no error result
StartScheduler(c, t) ==
    LET r == StartScheduler_loop(1, c, t, <<>>)
    IN  [cron |-> cron_Start(r.cron, t), logged |-> r.logged]

\* StopScheduler: cron is stopped and the context it returns is dropped; the
\* worker pool, which runs no scheduled rule, is stopped and waited for
StopScheduler(c) == [cron |-> cron_Stop(c)]

executeScheduledAction_firstError(a, failing) ==
    LET bad == {k \in 1..Len(a.Channels) : a.Channels[k] \in failing}
        stop == IF bad = {} THEN Len(a.Channels)
                ELSE CHOOSE k \in bad : \A j \in bad : k <= j
    IN  [calls |-> [k \in 1..stop |->
                       sendResponse(a.Channels[k], "", a.Response).calls[1]],
         logged |-> IF bad = {} THEN <<>>
                    ELSE <<[msg |-> "Failed to execute scheduled action",
                            action |-> a.Name, channel |-> a.Channels[stop]]>>]

\* executeScheduledAction: sendResponse for each channel of the trigger in
\* turn; failing are the channels where the session call returns an error,
\* which is logged
RECURSIVE executeScheduledAction_loop(_, _, _, _, _)
executeScheduledAction_loop(k, a, failing, made, logged) ==
    IF k > Len(a.Channels) THEN [calls |-> made, logged |-> logged]
    ELSE LET r == sendResponse(a.Channels[k], "", a.Response)
             failed == r.err \/ a.Channels[k] \in failing
         IN  executeScheduledAction_loop(k + 1, a, failing, made \o r.calls,
                 IF failed
                 THEN Append(logged, [msg |-> "Failed to execute scheduled action",
                                      action |-> a.Name, channel |-> a.Channels[k]])
                 ELSE logged)

executeScheduledAction(a, failing) ==
    executeScheduledAction_loop(1, a, failing, <<>>, <<>>)

\* the rule of this name
RuleNamed(name) ==
    actions[CHOOSE i \in 1..Len(actions) : actions[i].Name = name]

MgrStartScheduler ==
    /\ ~wp.waiting
    /\ cron.nextID <= MaxEntries
    /\ now < MaxTime
    /\ LET r == StartScheduler(cron, now)
       IN  /\ cron' = r.cron
           /\ slog' = [NoLog EXCEPT !.op = "StartScheduler", !.logged = r.logged]
    /\ UNCHANGED <<now, inflight, sched, varsL, varsD, varsC, varsP>>

\* StopScheduler up to workerPool.StopAndWait(): schedulerMu is taken, cron is
\* stopped without waiting for its jobs, the pool stops accepting tasks
MgrStopScheduler ==
    /\ ~wp.waiting
    /\ cron' = StopScheduler(cron).cron
    /\ wp' = pond_Stop(wp, pool)
    /\ UNCHANGED <<now, inflight, sched, slog, sweep, varsL, varsD, varsC, cfg, mgr, bot, auth>>

pond_Drained_nowait(p, queue) == TRUE

\* StopAndWait returns once the queue is empty and the workers are idle
pond_Drained(p, queue) == queue = <<>> /\ p.running = EmptyBag

\* the rest of StopScheduler: the wait for the pool, the return
MgrStopped ==
    /\ wp.waiting
    /\ pond_Drained(wp, pool)
    /\ wp' = [wp EXCEPT !.waiting = FALSE]
    /\ slog' = [NoLog EXCEPT !.op = "StopScheduler"]
    /\ UNCHANGED <<now, cron, inflight, sched, sweep, varsL, varsD, varsC, cfg, mgr, bot, auth>>

\* the callback of a fire returns
MgrJobDone(job, failing) ==
    /\ BagIn(job, inflight)
    /\ LET r == executeScheduledAction(RuleNamed(job.job), failing)
       IN  slog' = [NoLog EXCEPT !.op = "done", !.job = job.id, !.calls = r.calls,
                                 !.logged = r.logged]
    /\ inflight' = inflight (-) SetToBag({job})
    /\ UNCHANGED <<now, cron, sched, varsL, varsD, varsC, varsP>>

InitCron ==
    /\ IdleP
    /\ IdleC
    /\ IdleL
    /\ now = 0
    /\ actions = ScheduledRules
    /\ authEnabled = FALSE
    /\ requests = EmptyMap
    /\ pool = <<>>
    /\ handled = [kind |-> "none"]
    /\ watch = FALSE
    /\ events = <<>>
    /\ calls = <<>>
    /\ cron = cron_New
    /\ inflight = EmptyBag
    /\ sched = [running |-> FALSE, jobs |-> EmptyMap, pc |-> "idle"]
    /\ slog = NoLog

NextCron ==
    \/ MgrStartScheduler
    \/ MgrStopScheduler
    \/ MgrStopped
    \/ \E k \in 1..MaxEntries : CronFire(k)
    \/ \E job \in BagToSet(inflight), failing \in SUBSET Channels : MgrJobDone(job, failing)
    \/ TickS

SpecCron == InitCron /\ [][NextCron]_vars

\* ------------------------------------ pkg/ratelimit: the cleanup sweep
\* Channels are numbered as they are made; 0 is the nil channel. A sweep
\* goroutine is at the head of its loop, in its select holding the channel
\* that l.cleanupStop gave it, or done.

\* StartCleanup, under cleanupMu: an error when a stop channel is set; else a
\* new channel is stored and the goroutine started
Limiter_StartCleanup(sw) ==
    IF sw.stop # 0
    THEN [sw EXCEPT !.last = [op |-> "StartCleanup", err |-> "cleanup already running"]]
    ELSE [sw EXCEPT !.made = @ + 1, !.stop = sw.made + 1,
                    !.g = Append(@, [pc |-> "loop", ch |-> 0]),
                    !.last = [op |-> "StartCleanup", err |-> ""]]

\* StopCleanup, under cleanupMu: the channel is closed and the field set to nil
Limiter_StopCleanup(sw) ==
    IF sw.stop # 0
    THEN [sw EXCEPT !.closed = @ \cup {sw.stop}, !.stop = 0,
                    !.last = [op |-> "StopCleanup", err |-> ""]]
    ELSE [sw EXCEPT !.last = [op |-> "StopCleanup", err |-> ""]]

StartCleanup ==
    /\ sweep.stop = 0 => sweep.made < MaxGoroutines
    /\ sweep' = Limiter_StartCleanup(sweep)
    /\ UNCHANGED <<now, wp, varsL, varsD, varsC, varsS, cfg, mgr, bot, auth>>

StopCleanup ==
    /\ sweep' = Limiter_StopCleanup(sweep)
    /\ UNCHANGED <<now, wp, varsL, varsD, varsC, varsS, cfg, mgr, bot, auth>>

\* the goroutine enters its select: l.cleanupStop is read, without cleanupMu
SweepSelect(i) ==
    /\ i \in 1..Len(sweep.g)
    /\ sweep.g[i].pc = "loop"
    /\ sweep' = [sweep EXCEPT !.g[i] = [pc |-> "select", ch |-> sweep.stop]]
    /\ UNCHANGED <<now, wp, varsL, varsD, varsC, varsS, cfg, mgr, bot, auth>>

\* case <-ticker.C: l.Cleanup()
SweepTick(i) ==
    /\ i \in 1..Len(sweep.g)
    /\ sweep.g[i].pc = "select"
    /\ limiter' = Cleanup(limiter, now)
    /\ sweep' = [sweep EXCEPT !.g[i].pc = "loop",
                              !.last = [op |-> "Cleanup", err |-> ""]]
    /\ UNCHANGED <<now, wp, hist, last, varsD, varsC, varsS, cfg, mgr, bot, auth>>

\* case <-l.cleanupStop: a closed channel is ready, the nil channel never is
SweepExit(i) ==
    /\ i \in 1..Len(sweep.g)
    /\ sweep.g[i].pc = "select"
    /\ sweep.g[i].ch \in sweep.closed
    /\ sweep' = [sweep EXCEPT !.g[i].pc = "done"]
    /\ UNCHANGED <<now, wp, varsL, varsD, varsC, varsS, cfg, mgr, bot, auth>>

InitSweep ==
    /\ IdleS
    /\ IdleP
    /\ IdleC
    /\ IdleD
    /\ IdleL
    /\ now = 0

NextSweep ==
    \/ StartCleanup
    \/ StopCleanup
    \/ \E i \in Goroutines : SweepSelect(i)
    \/ \E i \in Goroutines : SweepTick(i)
    \/ \E i \in Goroutines : SweepExit(i)

SpecSweep == InitSweep /\ [][NextSweep]_vars

\* ------------------------------- internal/handlers: the worker pool
PoolWorkers == 10
PoolCapacity == 100

\* NewActionManager: the pool of the manager
NewActionManager_pool_swapped == pond_NewPool(PoolCapacity, PoolWorkers)

NewActionManager_pool == pond_NewPool(PoolWorkers, PoolCapacity)

\* an idle worker takes the task at the head of the queue
PoolTake ==
    /\ pool # <<>>
    /\ BagCardinality(wp.running) < wp.workers
    /\ wp' = [wp EXCEPT !.running = @ (+) SetToBag({Head(pool)})]
    /\ pool' = Tail(pool)
    /\ slog' = [slog EXCEPT !.op = "take"]
    /\ UNCHANGED <<now, actions, authEnabled, requests, handled, watch, events, calls,
                   cron, inflight, sched, sweep, varsL, varsC, cfg, mgr, bot, auth>>

submitted_stopPool(task, failed) ==
    LET a == actions[task.rule]
        r == executeAction(task.ev.ChannelID, task.ev.UserID, a)
    IN  [calls |-> r.calls,
         logged |-> IF r.err \/ failed
                    THEN <<[msg |-> "Failed to execute action", action |-> a.Name]>>
                    ELSE <<>>,
         pool |-> IF r.err \/ failed THEN [wp EXCEPT !.stopped = TRUE] ELSE wp]

\* the function HandleMessage and HandleReaction submit: the rule's response
\* is executed; failed is whether a session call returns an error, which is
\* logged
submitted(task, failed) ==
    LET a == actions[task.rule]
        r == IF task.ev.kind = "message"
             THEN executeAction(task.ev.ChannelID, task.ev.UserID, a)
             ELSE sendResponse(task.ev.ChannelID, task.ev.UserID, a.Response)
    IN  [calls |-> r.calls,
         logged |-> IF r.err \/ failed
                    THEN <<[msg |-> IF task.ev.kind = "message"
                                    THEN "Failed to execute action"
                                    ELSE "Failed to execute reaction action",
                            action |-> a.Name]>>
                    ELSE <<>>,
         pool |-> wp]

\* a task on a worker returns
PoolDone(task, failed) ==
    /\ BagIn(task, wp.running)
    /\ LET r == submitted(task, failed)
       IN  /\ wp' = [r.pool EXCEPT !.running = @ (-) SetToBag({task})]
           /\ slog' = [NoLog EXCEPT !.op = "task done", !.calls = r.calls,
                                     !.logged = r.logged]
    /\ UNCHANGED <<now, pool, actions, authEnabled, requests, handled, watch, events,
                   calls, cron, inflight, sched, sweep, varsL, varsC, cfg, mgr, bot, auth>>

\* the caller of the pool specification sends the ping command
PoolEvents ==
    {ev \in MessageEvents :
        ev.Content = PingText /\ ev.UserID = "u1" /\ ev.ChannelID = "c1"}

InitPool ==
    /\ IdleC
    /\ IdleL
    /\ now = 0
    /\ actions = ScenarioPlain
    /\ authEnabled = FALSE
    /\ requests = EmptyMap
    /\ pool = <<>>
    /\ handled = [kind |-> "none"]
    /\ watch = FALSE
    /\ events = <<>>
    /\ calls = <<>>
    /\ cron = cron_New
    /\ inflight = EmptyBag
    /\ sched = [running |-> FALSE, jobs |-> EmptyMap, pc |-> "idle"]
    /\ slog = NoLog
    /\ wp = NewActionManager_pool
    /\ sweep = NoSweep
    /\ cfg = <<>>
    /\ mgr = [impl |-> "none"]
    /\ bot = NoBot
    /\ auth = NoAuth

NextPool ==
    \/ \E ev \in PoolEvents : \E env \in Envs(ev) : HandleMessage(ev, env)
    \/ PoolTake
    \/ \E task \in BagToSet(wp.running), failed \in BOOLEAN : PoolDone(task, failed)
    \/ MgrStopScheduler
    \/ MgrStopped

SpecPool == InitPool /\ [][NextPool]_vars

\* ------------------------------------------------ loading the rules
\* regexp.Compile for the patterns of the model: an unclosed group is an error
Compiles(pattern) == "(" \notin Range(pattern)

ActionTypes == {"command", "reaction", "message", "scheduled"}
ResponseTypes == {"text", "embed", "reaction", "dm", "http", "webhook"}
ConditionTypes == {"role", "user", "channel", "permission", "time"}

\* rule descriptors as the configuration file gives them; the pattern of a
\* descriptor is not compiled yet
Descriptors ==
    {PingRule,
     [BaseAction EXCEPT !.Name = "hello", !.Type = "message",
                        !.Pattern = <<"e", "l", "l">>, !.Response = Text("hi")],
     [BaseAction EXCEPT !.Name = "badregex", !.Type = "message",
                        !.Pattern = <<"(", "l">>, !.Response = Text("hi")],
     [BaseAction EXCEPT !.Name = "badcron", !.Type = "scheduled",
                        !.Schedule = "invalid", !.Channels = <<"c1">>,
                        !.Response = Text("digest")],
     [PingRule EXCEPT !.Name = "badresponse", !.Response.Type = "pigeon"],
     [PingRule EXCEPT !.Name = "badtype", !.Type = "shout"],
     [PingRule EXCEPT !.Name = "badcondition",
                      !.Conditions = <<[Type |-> "mood", Value |-> "good",
                                        Operator |-> "equals"]>>]}

RECURSIVE SeqsUpTo(_, _)
SeqsUpTo(S, n) ==
    IF n = 0 THEN {<<>>}
    ELSE LET shorter == SeqsUpTo(S, n - 1)
         IN  shorter \cup {Append(q, x) : q \in shorter, x \in S}

\* Manager.Validate: the configuration unified with the CUE schema
Validate(list) ==
    \A i \in 1..Len(list) :
        /\ list[i].Type \in ActionTypes
        /\ list[i].Response.Type \in ResponseTypes
        /\ \A c \in 1..Len(list[i].Conditions) :
               list[i].Conditions[c].Type \in ConditionTypes
        /\ list[i].HasRateLimit =>
               (list[i].RateLimit.Requests > 0 /\ list[i].RateLimit.Window > 0)

\* loadAction: the pattern, when there is one, is compiled; loadResponse,
\* loadConditions and the schedule are taken as they are
loadAction(d) ==
    IF d.Pattern # <<>> /\ ~Compiles(d.Pattern)
    THEN [err |-> "invalid regex pattern", action |-> d]
    ELSE [err |-> "", action |-> [d EXCEPT !.Compiled = (d.Pattern # <<>>)]]

RECURSIVE loadActions_skipBad(_, _, _)
loadActions_skipBad(i, list, loaded) ==
    IF i > Len(list) THEN [err |-> "", actions |-> loaded]
    ELSE LET r == loadAction(list[i])
         IN  loadActions_skipBad(i + 1, list,
                 IF r.err # "" THEN loaded ELSE Append(loaded, r.action))

\* loadActions from index i on: the first error ends the loading
RECURSIVE loadActions(_, _, _)
loadActions(i, list, loaded) ==
    IF i > Len(list) THEN [err |-> "", actions |-> loaded]
    ELSE LET r == loadAction(list[i])
         IN  IF r.err # ""
             THEN [err |-> "failed to load action at index", actions |-> loaded]
             ELSE loadActions(i + 1, list, Append(loaded, r.action))

\* NewActionManager: no manager when loadActions fails
NewActionManager(list) ==
    LET r == loadActions(1, list, <<>>)
    IN  IF r.err # "" THEN [ok |-> FALSE, err |-> "failed to load actions", actions |-> <<>>]
        ELSE [ok |-> TRUE, err |-> "", actions |-> r.actions]

\* the loop of pkg/action's NewManager from index i on: a handler per rule, a
\* rule of another type than command, message and reaction is skipped
RECURSIVE NewManager_loop(_, _, _)
NewManager_loop(i, list, loaded) ==
    IF i > Len(list) THEN [ok |-> TRUE, err |-> "", actions |-> loaded]
    ELSE LET d == list[i]
         IN  CASE d.Type = "message" ->
                    IF ~Compiles(d.Pattern)
                    THEN [ok |-> FALSE, err |-> "failed to create message handler",
                          actions |-> <<>>]
                    ELSE NewManager_loop(i + 1, list,
                             Append(loaded, [d EXCEPT !.Compiled = TRUE]))
               [] d.Type \in {"command", "reaction"} ->
                    NewManager_loop(i + 1, list, Append(loaded, d))
               [] OTHER -> NewManager_loop(i + 1, list, loaded)

NewManager(list) == NewManager_loop(1, list, <<>>)

\* cmd: loadConfig validates the file before the bot is built
LoadConfig ==
    /\ mgr.impl = "internal" /\ mgr.state = "config"
    /\ mgr' = IF Validate(cfg)
              THEN [mgr EXCEPT !.state = "valid"]
              ELSE [mgr EXCEPT !.state = "rejected", !.err = "config validation failed"]
    /\ UNCHANGED <<now, cfg, wp, sweep, varsL, varsD, varsC, varsS, bot, auth>>

\* the bot of internal/ builds its action manager
BuildActionManager ==
    /\ mgr.impl = "internal" /\ mgr.state = "valid"
    /\ LET r == NewActionManager(cfg)
       IN  /\ actions' = r.actions
           /\ mgr' = [mgr EXCEPT !.state = IF r.ok THEN "ready" ELSE "failed",
                                  !.err = r.err]
    /\ UNCHANGED <<now, cfg, wp, sweep, authEnabled, requests, pool, handled, watch,
                   events, calls, varsL, varsC, varsS, bot, auth>>

\* the bot of pkg/ builds its manager
BuildManager ==
    /\ mgr.impl = "pkg" /\ mgr.state = "config"
    /\ LET r == NewManager(cfg)
       IN  /\ actions' = r.actions
           /\ mgr' = [mgr EXCEPT !.state = IF r.ok THEN "ready" ELSE "failed",
                                  !.err = r.err]
    /\ UNCHANGED <<now, cfg, wp, sweep, authEnabled, requests, pool, handled, watch,
                   events, calls, varsL, varsC, varsS, bot, auth>>

\* the messages sent to a bot that has started
LoadEvents ==
    {ev \in ManagerMessages :
        ev.Content \in {PingText, HelloText} /\ ev.UserID = "u1" /\ ev.ChannelID = "c1"}

InitLoad ==
    /\ IdleC
    /\ IdleL
    /\ IdleS
    /\ now = 0
    /\ actions = <<>>
    /\ authEnabled = FALSE
    /\ requests = EmptyMap
    /\ pool = <<>>
    /\ handled = [kind |-> "none"]
    /\ watch = FALSE
    /\ events = <<>>
    /\ calls = <<>>
    /\ wp = pond_NewPool(MaxQueue, MaxQueue)
    /\ sweep = NoSweep
    /\ cfg \in SeqsUpTo(Descriptors, MaxRules)
    /\ mgr \in [impl : {"internal", "pkg"}, state : {"config"}, err : {""}]
    /\ bot = NoBot
    /\ auth = NoAuth

NextLoad ==
    \/ LoadConfig
    \/ BuildActionManager
    \/ BuildManager
    \/ \E ev \in LoadEvents : \E env \in Envs(ev) :
          /\ mgr.impl = "internal" /\ mgr.state = "ready"
          /\ HandleMessage(ev, env)
    \/ \E k \in 1..MaxQueue :
          /\ mgr.impl = "internal" /\ mgr.state = "ready"
          /\ WorkerRun(k)
    \/ \E ev \in LoadEvents :
          /\ mgr.impl = "pkg" /\ mgr.state = "ready"
          /\ Manager_HandleMessage(ev)
    \/ /\ mgr.impl = "internal" /\ mgr.state = "ready"
       /\ MgrStartScheduler

SpecLoad == InitLoad /\ [][NextLoad]_vars

\* ------------------------------------------- a limit of 0 in both limiters
\* the ping command with a rateLimit block of n requests per window and user;
\* loadRateLimit takes the numbers of the block as they are
LimitedPing(n) == <<[PingRule EXCEPT !.HasRateLimit = TRUE, !.RateLimit = Limit(n, "user")]>>

\* the Limiter with or without a user limit, the channel, guild and global
\* scopes left without one; the ActionManager with a rule limited to 0 or 1
InitZero ==
    /\ IdleS
    /\ IdleP
    /\ IdleC
    /\ now = 0
    /\ \E ul \in {0, 1} : limiter = Configured(ul, MaxWindow, 0, 0, 0)
    /\ hist = EmptyMap
    /\ last = [op |-> "New"]
    /\ actions \in {ScenarioPlain, LimitedPing(0), LimitedPing(1)}
    /\ authEnabled = FALSE
    /\ requests = EmptyMap
    /\ pool = <<>>
    /\ handled = [kind |-> "none"]
    /\ watch = FALSE
    /\ events = <<>>
    /\ calls = <<>>

NextZero ==
    \/ \E u \in Users : DoAllowUser(u)
    \/ \E c \in LimiterChannels : DoAllowChannel(c)
    \/ \E g \in LimiterGuilds : DoAllowGuild(g)
    \/ DoAllowGlobal
    \/ \E u \in Users, c \in LimiterChannels, g \in LimiterGuilds : DoAllow(u, c, g)
    \/ \E ev \in ScenarioEvents : \E env \in Envs(ev) : HandleMessage(ev, env)
    \/ \E k \in 1..MaxQueue : WorkerRun(k)
    \/ TickD

SpecZero == InitZero /\ [][NextZero]_vars

\* --------------------------------------- command rules in both managers
\* contents around the ping command: the command, in another case, followed
\* by a letter, after a space, cut short, with a space after the prefix
CommandContents ==
    {PingText,
     <<"!", "P", "i", "n", "g">>,
     <<"!", "p", "i", "n", "g", "s">>,
     <<" ", "!", "p", "i", "n", "g">>,
     <<"!", "p", "i", "n">>,
     <<"!", " ", "p", "i", "n", "g">>,
     HelloText}

CommandEvents ==
    [kind : {"message"}, Content : CommandContents, Emoji : {""},
     ChannelID : {"c1"}, GuildID : {"g1"}, UserID : {"u1"}]

\* either manager, built over the ping command alone
InitCommand ==
    /\ IdleS
    /\ IdleP
    /\ IdleC
    /\ IdleL
    /\ now = 0
    /\ actions = ScenarioPlain
    /\ authEnabled = FALSE
    /\ requests = EmptyMap
    /\ pool = <<>>
    /\ handled = [kind |-> "none"]
    /\ watch = TRUE
    /\ events = <<>>
    /\ calls = <<>>

NextCommand ==
    \/ \E ev \in CommandEvents : \E env \in Envs(ev) : HandleMessage(ev, env)
    \/ \E ev \in CommandEvents : Manager_HandleMessage(ev)
    \/ \E k \in 1..MaxQueue : WorkerRun(k)

SpecCommand == InitCommand /\ [][NextCommand]_vars

\* ------------------------------------------------------ pkg/bot: Bot
BotRan(op, err, logged) ==
    [op |-> op, err |-> err, prev |-> bot.last.op, logged |-> logged]

\* Start, under runningM: an error when running or when the session does not
\* open; else the scheduler and the cleanup are started, their errors logged
BotStart(openErr) ==
    /\ bot.pc = "idle" /\ sched.pc = "idle"
    /\ now < MaxTime
    /\ sweep.stop = 0 => sweep.made < MaxGoroutines
    /\ IF bot.running
       THEN /\ bot' = [bot EXCEPT !.last = BotRan("Start", "bot is already running", <<>>)]
            /\ UNCHANGED <<cron, sched, sweep>>
       ELSE IF openErr
       THEN /\ bot' = [bot EXCEPT
                          !.last = BotRan("Start", "failed to open Discord session", <<>>)]
            /\ UNCHANGED <<cron, sched, sweep>>
       ELSE LET r == Scheduler_Start(sched)
                sw == Limiter_StartCleanup(sweep)
            IN  /\ cron' = IF r.go THEN cron_Start(cron, now) ELSE cron
                /\ sched' = IF r.go THEN [sched EXCEPT !.running = TRUE] ELSE sched
                /\ sweep' = sw
                /\ bot' = [bot EXCEPT
                              !.running = TRUE,
                              !.last = BotRan("Start", "",
                                  (IF r.go THEN <<>> ELSE <<"Failed to start scheduler">>)
                                  \o (IF sw.last.err = "" THEN <<>>
                                      ELSE <<"Failed to start rate limiter cleanup">>))]
    /\ UNCHANGED <<now, inflight, slog, wp, cfg, mgr, varsL, varsD, varsC, auth>>

\* what Stop does after the scheduler: the cleanup is stopped, the session
\* closed (an error is logged), running = false, and nil is returned
Bot_Stop_rest(closeErr) ==
    [sweep |-> Limiter_StopCleanup(sweep),
     bot |-> [bot EXCEPT !.running = FALSE, !.pc = "idle",
                         !.last = BotRan("Stop", "",
                                         IF closeErr
                                         THEN <<"Error closing Discord session">>
                                         ELSE <<>>)]]

BotStop_strict(closeErr) ==
    /\ bot.pc = "idle" /\ sched.pc = "idle"
    /\ IF ~bot.running
       THEN /\ bot' = [bot EXCEPT !.last = BotRan("Stop", "bot is not running", <<>>)]
            /\ UNCHANGED <<cron, sched, sweep>>
       ELSE IF sched.running
       THEN /\ cron' = cron_Stop(cron)
            /\ sched' = [sched EXCEPT !.pc = "stopping"]
            /\ bot' = [bot EXCEPT !.pc = "stopping"]
            /\ UNCHANGED sweep
       ELSE /\ sweep' = Bot_Stop_rest(closeErr).sweep
            /\ bot' = Bot_Stop_rest(closeErr).bot
            /\ UNCHANGED <<cron, sched>>
    /\ UNCHANGED <<now, inflight, slog, wp, cfg, mgr, varsL, varsD, varsC, auth>>

\* Stop, under runningM: nothing and nil when neither running nor holding a
\* session; the scheduler is stopped when it is running, which waits for the
\* running jobs; then the rest
BotStop(closeErr) ==
    /\ bot.pc = "idle" /\ sched.pc = "idle"
    /\ IF ~bot.running /\ ~bot.session
       THEN /\ bot' = [bot EXCEPT !.last = BotRan("Stop", "", <<>>)]
            /\ UNCHANGED <<cron, sched, sweep>>
       ELSE IF sched.running
       THEN /\ cron' = cron_Stop(cron)
            /\ sched' = [sched EXCEPT !.pc = "stopping"]
            /\ bot' = [bot EXCEPT !.pc = "stopping"]
            /\ UNCHANGED sweep
       ELSE /\ sweep' = Bot_Stop_rest(closeErr).sweep
            /\ bot' = Bot_Stop_rest(closeErr).bot
            /\ UNCHANGED <<cron, sched>>
    /\ UNCHANGED <<now, inflight, slog, wp, cfg, mgr, varsL, varsD, varsC, auth>>

\* Stop goes on once scheduler.Stop has returned
BotStopped(closeErr) ==
    /\ bot.pc = "stopping"
    /\ Drained
    /\ sched' = [sched EXCEPT !.running = FALSE, !.pc = "idle"]
    /\ sweep' = Bot_Stop_rest(closeErr).sweep
    /\ bot' = Bot_Stop_rest(closeErr).bot
    /\ UNCHANGED <<now, cron, inflight, slog, wp, cfg, mgr, varsL, varsD, varsC, auth>>

\* the Bot as New returns it; jobs are added through GetScheduler()
InitBot ==
    /\ IdleP
    /\ IdleC
    /\ IdleD
    /\ IdleL
    /\ now = 0
    /\ cron = cron_New
    /\ inflight = EmptyBag
    /\ sched = [running |-> FALSE, jobs |-> EmptyMap, pc |-> "idle"]
    /\ slog = NoLog

NextBot ==
    \/ \E openErr \in BOOLEAN : BotStart(openErr)
    \/ \E closeErr \in BOOLEAN : BotStop(closeErr)
    \/ \E closeErr \in BOOLEAN : BotStopped(closeErr)
    \/ \E name \in JobNames :
          cron.nextID <= MaxLiveEntries /\ SchedAddJob(name, "@every 1s")
    \/ \E k \in 1..MaxLiveEntries : CronFire(k)
    \/ \E job \in BagToSet(inflight), failed \in BOOLEAN : SchedJobDone(job, failed)
    \/ TickS

SpecBot == InitBot /\ [][NextBot]_vars

\* ------------------------------------------- internal/auth: the sessions
\* handleCallback after a successful exchange: the session of the user is
\* stored, to expire sessionDuration later
handleCallback(u, sessionDuration) ==
    /\ now + sessionDuration <= MaxTime
    /\ auth' = [auth EXCEPT !.sessions = Put(@, u, now + sessionDuration)]
    /\ UNCHANGED <<now, wp, sweep, cfg, mgr, bot, varsL, varsD, varsC, varsS>>

\* IsAuthenticated up to RUnlock: the session of the user is read; without
\* one the call returns false
IsAuthenticated_read(i, u) ==
    /\ authEnabled
    /\ auth.g[i].pc = "off"
    /\ auth' = IF u \in DOMAIN auth.sessions
               THEN [auth EXCEPT !.g[i] = [pc |-> "read", user |-> u,
                                           seen |-> auth.sessions[u]]]
               ELSE auth
    /\ UNCHANGED <<now, wp, sweep, cfg, mgr, bot, varsL, varsD, varsC, varsS>>

\* time.Now().After(session.ExpiresAt) on the session that was read: true is
\* returned for a session that has not expired
IsAuthenticated_expiry(i) ==
    /\ auth.g[i].pc = "read"
    /\ auth' = IF now > auth.g[i].seen
               THEN [auth EXCEPT !.g[i].pc = "expired"]
               ELSE [auth EXCEPT !.g[i] = NoCall]
    /\ UNCHANGED <<now, wp, sweep, cfg, mgr, bot, varsL, varsD, varsC, varsS>>

\* Lock, delete(m.sessions, userID), Unlock, return false
IsAuthenticated_delete(i) ==
    /\ auth.g[i].pc = "expired"
    /\ auth' = [auth EXCEPT !.sessions = Delete(@, auth.g[i].user),
                            !.g[i] = NoCall]
    /\ UNCHANGED <<now, wp, sweep, cfg, mgr, bot, varsL, varsD, varsC, varsS>>

\* authentication is enabled; logins and checks of one user run side by side
InitAuth ==
    /\ IdleS
    /\ IdleP
    /\ IdleC
    /\ IdleL
    /\ now = 0
    /\ actions = <<>>
    /\ authEnabled = TRUE
    /\ requests = EmptyMap
    /\ pool = <<>>
    /\ handled = [kind |-> "none"]
    /\ watch = FALSE
    /\ events = <<>>
    /\ calls = <<>>

NextAuth ==
    \/ \E u \in ObservedUsers, d \in 1..MaxSession : handleCallback(u, d)
    \/ \E i \in Goroutines, u \in ObservedUsers : IsAuthenticated_read(i, u)
    \/ \E i \in Goroutines : IsAuthenticated_expiry(i)
    \/ \E i \in Goroutines : IsAuthenticated_delete(i)
    \/ TickD

SpecAuth == InitAuth /\ [][NextAuth]_vars

\* ------------------------------- pkg/scheduler: the rules of the config
\* the rules a configuration is made of: a scheduled rule, a scheduled rule
\* without schedule, a message rule
ConfigRules ==
    {ScheduledRules[1],
     [BaseAction EXCEPT !.Name = "unscheduled", !.Type = "scheduled",
                        !.Channels = <<"c1">>, !.Response = Text("digest")],
     PingRule}

\* the rules LoadFromConfig counts
IsScheduled(action) == action.Type = "scheduled" /\ action.Schedule # ""

\* LoadFromConfig: the scheduled rules with a schedule are counted and the
\* count is logged and returned
Scheduler_LoadFromConfig(list) ==
    Cardinality({i \in 1..Len(list) : IsScheduled(list[i])})

SchedLoadFromConfig ==
    /\ sched.pc = "idle"
    /\ slog' = [Ran("LoadFromConfig", "") EXCEPT
                    !.logged = <<[msg |-> "Scheduled actions loaded",
                                  count |-> Scheduler_LoadFromConfig(cfg)]>>]
    /\ UNCHANGED <<now, cron, sched, inflight, varsL, varsD, varsC, varsP>>

\* a bot with a configuration; its scheduler is handed the configuration,
\* and jobs by AddJob
InitConfigured ==
    /\ IdleC
    /\ IdleD
    /\ IdleL
    /\ now = 0
    /\ cron = cron_New
    /\ inflight = EmptyBag
    /\ sched = [running |-> FALSE, jobs |-> EmptyMap, pc |-> "idle"]
    /\ slog = NoLog
    /\ wp = pond_NewPool(MaxQueue, MaxQueue)
    /\ sweep = NoSweep
    /\ cfg \in SeqsUpTo(ConfigRules, MaxRules)
    /\ mgr = [impl |-> "pkg", state |-> "config", err |-> ""]
    /\ bot = NoBot
    /\ auth = NoAuth

NextConfigured ==
    \/ SchedLoadFromConfig
    \/ \E openErr \in BOOLEAN : BotStart(openErr)
    \/ \E name \in JobNames :
          cron.nextID <= MaxLiveEntries /\ SchedAddJob(name, "@every 1s")
    \/ \E k \in 1..MaxLiveEntries : CronFire(k)
    \/ \E job \in BagToSet(inflight), failed \in BOOLEAN : SchedJobDone(job, failed)
    \/ TickS

SpecConfigured == InitConfigured /\ [][NextConfigured]_vars

\* ------------------------------------------- claims about the dispatcher
FirstMatch(ev) ==
    IF \E i \in 1..Len(actions) : TriggerMatches(actions[i], ev)
    THEN CHOOSE i \in 1..Len(actions) :
             /\ TriggerMatches(actions[i], ev)
             /\ \A j \in 1..(i - 1) : ~TriggerMatches(actions[j], ev)
    ELSE 0

\* C1: when the triggers of two rules both match an event, only the rule that
\* is first in registration order is dispatched for it; the later rule never is.
C1_OnlyFirstMatchDispatched ==
    /\ handled.kind # "none" /\ handled.picked # 0 => handled.picked = FirstMatch(handled.ev)
    /\ \A k \in 1..Len(pool) : pool[k].rule = FirstMatch(pool[k].ev)

\* C2: when the rule matched for a message is rejected by its conditions or
\* by its rate limit, nothing is submitted to the pool for that message.
C2_RejectedIsDropped ==
    (/\ handled.kind = "message"
     /\ \E i \in 1..Len(handled.trail) :
            handled.trail[i].outcome \in {"conditions", "ratelimit"})
        => handled.picked = 0

NoMatch(ev) == FirstMatch(ev) = 0

\* C8: an event that matches no rule's trigger reaches no rule, is not
\* submitted to the pool and makes no call; no task in the pool stems from
\* such an event.
C8_NoMatchNoDispatch ==
    /\ (handled.kind # "none" /\ NoMatch(handled.ev)) =>
           /\ handled.picked = 0
           /\ handled.trail = <<>>
           /\ handled.sent = <<>>
    /\ \A k \in 1..Len(pool) : ~NoMatch(pool[k].ev)

\* a message and a reaction that match no rule have been handled while a
\* task of an earlier event waits
C8_Witness ==
    /\ handled.kind # "none"
    /\ NoMatch(handled.ev)
    /\ Len(pool) > 0

\* C10: a rule dispatched for a reaction passed checkConditions for that
\* reaction (allow-lists, auth requirement, condition list).
C10_ReactionConditionsChecked ==
    (handled.kind = "reaction" /\ handled.picked # 0) =>
        checkConditions(actions[handled.picked], handled.ev, handled.env).ok

Pending(i) == \E k \in 1..Len(pool) : pool[k].id = i

Pong(ev) == Call("ChannelMessageSend", FALSE, ev.ChannelID, "Pong!")

SameCaller(i, j) == events[i].ev.UserID = events[j].ev.UserID

\* the first three invocations of a caller, all inside one window
Burst(i, j, k) ==
    /\ i < j /\ j < k
    /\ SameCaller(i, j) /\ SameCaller(j, k)
    /\ \A m \in 1..k : SameCaller(m, i) => m \in {i, j, k}
    /\ events[k].at - events[i].at < actions[1].RateLimit.Window

\* C7: with the ping command limited to 2 requests per window and user, of
\* three invocations by one caller inside the window the first two are
\* dispatched and send their response once each, and the third is dropped:
\* it is not submitted and no response is sent for it.
C7_ThirdInvocationDropped ==
    actions = ScenarioLimited =>
        \A i, j, k \in 1..Len(events) :
            Burst(i, j, k) =>
                /\ events[i].picked = 1 /\ events[j].picked = 1
                /\ \A m \in {i, j} :
                       IF Pending(m) THEN calls[m] = <<>>
                       ELSE calls[m] = <<Pong(events[m].ev)>>
                /\ events[k].picked = 0
                /\ ~Pending(k)
                /\ calls[k] = <<>>

\* three invocations by one caller inside the window, the pool drained: two
\* responses were sent
C7_Witness ==
    /\ actions = ScenarioLimited
    /\ pool = <<>>
    /\ \E i, j, k \in 1..Len(events) :
           /\ Burst(i, j, k)
           /\ events[k].at > events[i].at
           /\ calls[i] = <<Pong(events[i].ev)>>
           /\ calls[j] = <<Pong(events[j].ev)>>
           /\ calls[k] = <<>>

\* C9: with the ping command alone (prefix "!", command "ping", response
\* "Pong!"), a handled message "!ping" has its response either still waiting
\* to be executed, or sent exactly once to the channel the message came from.
C9_PongSentOnce ==
    actions = ScenarioPlain =>
        \A i \in 1..Len(events) :
            (events[i].ev.kind = "message" /\ events[i].ev.Content = PingText) =>
                IF Pending(i) THEN calls[i] = <<>>
                ELSE calls[i] = <<Pong(events[i].ev)>>

Started == {g \in Goroutines : pc[g] # "off"}
Returned == {g \in Goroutines : pc[g] \in {"written", "done"}}
Granted == {g \in Returned : ret[g].ok}

\* the checks that have returned were all made inside one window
OneWindow == \A g, h \in Returned : ret[g].at - ret[h].at < args.window

Min(a, b) == IF a <= b THEN a ELSE b

\* C6: K concurrent allow checks on one key with limit N, made inside one
\* window: at every moment at most N have returned true, and once all K have
\* returned exactly min(K, N) have.
C6_ExactlyMinGranted ==
    OneWindow =>
        /\ Cardinality(Granted) = Min(Cardinality(Returned), args.maxRequests)
        /\ Returned = Started => Cardinality(Granted) = Min(args.K, args.maxRequests)

\* more goroutines than quota, interleaved with the clock, all returned
C6_Witness ==
    /\ OneWindow
    /\ args.impl # "none"
    /\ args.K > args.maxRequests
    /\ \A g \in Started : pc[g] = "done"
    /\ \E g, h \in Returned : ret[g].at # ret[h].at
    /\ Cardinality(Granted) = args.maxRequests

\* ------------------------------------------ claims about the conditions
Listed(a, ev) ==
    /\ a.Channels # <<>> => ev.ChannelID \in Range(a.Channels)
    /\ a.Guilds # <<>> => ev.GuildID \in Range(a.Guilds)

\* rule i requires authentication and ev triggers it
Gated(i, ev) ==
    /\ actions[i].RequireAuth
    /\ TriggerMatches(actions[i], ev)
    /\ Listed(actions[i], ev)

IsPrompt(c) == c.content = "auth-url"

Unauthenticated == handled.kind # "none" /\ authEnabled /\ ~handled.env.authed

\* C11: an event of an unauthenticated caller that hits a rule requiring
\* authentication has exactly one authentication message sent, and the
\* response of no such rule is dispatched.
C11_OnePromptInsteadOfResponse ==
    (Unauthenticated /\ \E i \in 1..Len(actions) : Gated(i, handled.ev)) =>
        /\ SelectSeq(handled.sent, IsPrompt) = <<AuthCall(handled.ev)>>
        /\ handled.picked # 0 => ~actions[handled.picked].RequireAuth

LookupFailed(v) ==
    \E n \in 1..Len(v.made) :
        \/ v.made[n].api = "GuildMember" /\ handled.env.memberErr
        \/ v.made[n].api = "UserChannelPermissions" /\ handled.env.permErr

\* C13: a rule whose role or permission lookup returned an error is rejected
\* by its conditions and is not the rule dispatched for the event.
C13_LookupErrorFailsClosed ==
    handled.kind = "message" =>
        \A k \in 1..Len(handled.trail) :
            LookupFailed(handled.trail[k]) =>
                /\ handled.trail[k].outcome = "conditions"
                /\ handled.picked # handled.trail[k].rule

\* both lookups have failed: the member lookup for an authenticated caller,
\* and the permission lookup
C13_Witness ==
    /\ handled.kind = "message"
    /\ \E k \in 1..Len(handled.trail) :
           /\ LookupFailed(handled.trail[k])
           /\ handled.trail[k].made[1].api = "UserChannelPermissions"
    /\ \E j \in 1..Len(pool) : pool[j].ev.Content = PingText

\* ------------------------------------------- claims about the scheduler
FireBegins == BagCardinality(inflight') > BagCardinality(inflight)

JobReturns == BagCardinality(inflight') < BagCardinality(inflight)

\* C14: a job begins only while the scheduler is running (Start has begun and
\* Stop has not), so not before Start for a job added while stopped and not
\* after Stop has returned; AddJob with a valid schedule and RemoveJob of a
\* known job succeed whether the scheduler is running or not.
C14_FiresOnlyWhileRunning ==
    [][/\ FireBegins =>
              /\ sched.pc # "stopping"
              /\ sched.running \/ sched.pc = "starting"
       /\ (slog' # slog /\ slog'.op = "AddJob" /\ ParseOK(slog'.schedule)) =>
              /\ slog'.err = ""
              /\ DOMAIN sched'.jobs = DOMAIN sched.jobs \cup {JobID(cron.nextID)}
       /\ (slog' # slog /\ slog'.op = "RemoveJob" /\ slog'.jobID \in DOMAIN sched.jobs) =>
              /\ slog'.err = ""
              /\ DOMAIN sched'.jobs = DOMAIN sched.jobs \ {slog'.jobID}]_vars

\* a job added while stopped sat unscheduled, a later Start scheduled it, and
\* it has fired; another job was added while running
C14_Witness ==
    /\ slog.op = "fire"
    /\ sched.running
    /\ \E k \in 1..Len(cron.entries) : cron.entries[k].prev > 1
    /\ Len(cron.entries) > 1

\* C15: a start on a running scheduler returns the already-running error and
\* a stop on a stopped one the not-running error, and neither changes the
\* scheduler or the cron engine: Scheduler.Start and Scheduler.Stop, and
\* StartScheduler and StopScheduler of the action manager.
C15_StartStopErrors ==
    [][/\ (slog' # slog /\ slog'.op = "Start" /\ sched.running) =>
              /\ slog'.err = "scheduler already running"
              /\ sched' = sched /\ cron' = cron
       /\ (slog' # slog /\ slog'.op = "Stop" /\ ~sched.running) =>
              /\ slog'.err = "scheduler not running"
              /\ sched' = sched /\ cron' = cron
       /\ (slog' # slog /\ slog'.op = "StartScheduler" /\ cron.running) =>
              /\ slog'.err # ""
              /\ cron' = cron
       /\ (slog' # slog /\ slog'.op = "StopScheduler" /\ ~cron.running) =>
              /\ slog'.err # ""
              /\ cron' = cron]_vars

\* C16: when a stop returns without error no job callback is executing:
\* Scheduler.Stop, and StopScheduler of the action manager.
C16_StopWaitsForInflight ==
    [][(slog' # slog /\ slog'.op \in {"Stop", "StopScheduler"} /\ slog'.err = "") =>
          inflight' = EmptyBag]_vars

\* the cron entries that run the rule of this name
EntriesOf(name) == {k \in 1..Len(cron.entries) : cron.entries[k].job = name}

\* C17: cron holds at most one entry for each scheduled rule.
C17_OneEntryPerRule ==
    \A i \in 1..Len(actions) : Cardinality(EntriesOf(actions[i].Name)) <= 1

\* the entry of job id, when it is registered
EntryOf(id) == {k \in 1..Len(cron.entries) : cron.entries[k].id = id}

\* job id runs every second in a started scheduler
Armed(id) ==
    /\ sched.running /\ sched.pc = "idle"
    /\ \E k \in EntryOf(id) : cron.entries[k].schedule = "@every 1s"

Fired(id) == \E k \in EntryOf(id) : cron.entries[k].prev > 0

Halted == ~sched.running \/ sched.pc = "stopping"

Removed(id) == EntryOf(id) = {}

\* C18: a job added with "@every 1s" to a started scheduler is due at most a
\* second later and its callback is eventually started, unless the scheduler
\* is stopped or the job removed before.
C18_EverySecondJobFires ==
    \A id \in 1..MaxLiveEntries :
        /\ [](Armed(id) /\ ~Fired(id) =>
                 \A k \in EntryOf(id) : cron.entries[k].next <= now + 1)
        /\ Armed(id) ~> (Fired(id) \/ Halted \/ Removed(id))

\* a job has fired a second after it was added to the running scheduler
C18_Witness ==
    /\ sched.running
    /\ slog.op = "fire"
    /\ \E k \in 1..Len(cron.entries) :
           /\ cron.entries[k].id = slog.job
           /\ cron.entries[k].schedule = "@every 1s"
           /\ cron.entries[k].prev = now

\* C19: a job that returns an error is only logged: the step leaves the
\* scheduler and every cron entry as they were, so the job stays registered
\* and due on its cadence, like the other jobs.
C19_JobErrorOnlyLogged ==
    [][(JobReturns /\ slog'.logged # <<>>) =>
          /\ cron' = cron
          /\ sched' = sched
          /\ slog'.logged[1].msg = "Job execution failed"]_vars

\* the job whose last run failed has fired again
C19_Witness ==
    /\ slog.op = "fire"
    /\ slog.logged # <<>>
    /\ slog.logged[1].id = slog.job
    /\ Len(cron.entries) > 1

\* C20: the callback of a fire has called sendResponse once for each channel
\* of the rule's trigger, in their order, with no user and the rule's
\* response, whichever of the calls failed.
C20_OncePerChannel ==
    [][(JobReturns /\ slog'.op = "done") =>
          \E k \in 1..Len(cron.entries) :
              /\ cron.entries[k].id = slog'.job
              /\ LET a == RuleNamed(cron.entries[k].job)
                 IN  slog'.calls =
                         [c \in 1..Len(a.Channels) |->
                             Call("ChannelMessageSend", FALSE, a.Channels[c],
                                  a.Response.Content)]]_vars

\* the send to the first channel failed and the second channel was sent to
C20_Witness ==
    /\ slog.op = "done"
    /\ Len(slog.logged) = 1
    /\ slog.logged[1].channel = "c1"
    /\ Len(slog.calls) = 2
    /\ slog.calls[2].to = "c2"

\* C26: AddJob with a schedule the parser rejects and RemoveJob with an
\* unknown job id return their error and leave the jobs and the cron entries
\* as they were.
C26_FailedOperationChangesNothing ==
    [][/\ (slog' # slog /\ slog'.op = "AddJob" /\ ~ParseOK(slog'.schedule)) =>
              /\ slog'.err = "invalid cron expression"
              /\ sched' = sched /\ cron' = cron
       /\ (slog' # slog /\ slog'.op = "RemoveJob"
                        /\ slog'.jobID \notin DOMAIN sched.jobs) =>
              /\ slog'.err = "job not found"
              /\ sched' = sched /\ cron' = cron]_vars

\* AddJob was refused on a scheduler that holds a job
C26_Witness ==
    /\ slog.op = "AddJob"
    /\ slog.err = "invalid cron expression"
    /\ DOMAIN sched.jobs # {}
    /\ Len(cron.entries) = Cardinality(DOMAIN sched.jobs)

\* ------------------------------------------ claims about the worker pool
\* C21: the callback of a scheduled fire makes no session call itself: it
\* submits the executions to the worker pool.
C21_FiresRunInPool ==
    [][JobReturns => (slog'.calls = <<>> /\ Len(pool') > Len(pool))]_vars

\* C22: at most 10 submitted executions are on the workers and at most 100
\* wait in the queue.
C22_PoolBounds ==
    /\ BagCardinality(wp.running) <= 10
    /\ Len(pool) <= 100

\* every worker is busy and the queue is full
C22_Witness ==
    /\ BagCardinality(wp.running) = 10
    /\ Len(pool) = 100

\* C23: StopScheduler returns only when the queue is empty and the workers
\* are idle, and once the pool is stopped a queued task leaves the queue
\* only for a worker and a running task leaves its worker only by returning.
C23_ShutdownDrainsPool ==
    [][/\ (wp.waiting /\ ~wp'.waiting) => (pool' = <<>> /\ wp'.running = EmptyBag)
       /\ (wp.stopped /\ pool' # pool) =>
              /\ pool' = Tail(pool)
              /\ wp'.running = wp.running (+) SetToBag({Head(pool)})
       /\ (wp.stopped /\ wp'.running # wp.running /\ pool' = pool) =>
              /\ slog'.op = "task done"
              /\ BagCardinality(wp'.running) = BagCardinality(wp.running) - 1]_vars

\* StopScheduler has returned after waiting for tasks that were pending
C23_Witness ==
    /\ slog.op = "StopScheduler"
    /\ wp.stopped /\ ~wp.waiting
    /\ wp.drain

TaskReturns == BagCardinality(wp'.running) < BagCardinality(wp.running)

\* C25: a task whose execution fails is logged and nothing else: the handler
\* that submitted it is not touched, the pool is not stopped, the queue and
\* the other workers are as before.
C25_TaskErrorOnlyLogged ==
    [][(TaskReturns /\ slog'.logged # <<>>) =>
          /\ slog'.logged[1].msg = "Failed to execute action"
          /\ handled' = handled
          /\ pool' = pool
          /\ wp' = [wp EXCEPT !.running = wp'.running]
          /\ BagCardinality(wp'.running) = BagCardinality(wp.running) - 1]_vars

\* a worker has taken the next task after a failure was logged
C25_Witness ==
    /\ slog.op = "take"
    /\ slog.logged # <<>>
    /\ ~wp.stopped
    /\ wp.running # EmptyBag

\* --------------------------------------- claims about the cleanup sweep
SweepRuns ==
    \E i \in 1..Len(sweep.g) : sweep.g[i].pc = "select" /\ sweep'.g[i].pc = "loop"

BadPattern ==
    \E i \in 1..Len(cfg) : cfg[i].Type = "message" /\ ~Compiles(cfg[i].Pattern)

\* C27: loading a rule list with a pattern trigger whose regular expression
\* does not compile fails with an error and gives no manager: the bot never
\* becomes ready, no rule of the list is kept, and no message is ever matched
\* against a part of the list.
C27_BadPatternFailsLoad ==
    BadPattern =>
        /\ mgr.state # "ready"
        /\ actions = <<>>
        /\ handled.kind = "none" /\ events = <<>> /\ pool = <<>>
        /\ mgr.state \in {"failed", "rejected"} => mgr.err # ""

\* the rule before the bad pattern was loaded when the loading failed
C27_Witness ==
    /\ Len(cfg) = 2 /\ cfg[1] = PingRule /\ cfg[2].Name = "badregex"
    /\ mgr.impl = "internal" /\ mgr.state = "failed"
    /\ mgr.err = "failed to load actions"
    /\ actions = <<>>

\* a rule that the loading should have refused
Malformed(d) ==
    \/ d.Type = "scheduled" /\ ~ParseOK(d.Schedule)
    \/ d.Type \notin ActionTypes
    \/ d.Response.Type \notin ResponseTypes
    \/ \E c \in 1..Len(d.Conditions) : d.Conditions[c].Type \notin ConditionTypes

\* C28: a malformed cron expression, or an unknown response, condition or
\* trigger kind, aborts the construction of the manager: the bot is never
\* ready when the configuration holds such a rule, and no such rule is among
\* the loaded ones.
C28_MalformedRuleAbortsLoad ==
    /\ (\E i \in 1..Len(cfg) : Malformed(cfg[i])) => mgr.state # "ready"
    /\ \A i \in 1..Len(actions) : ~Malformed(actions[i])

\* ---------------------------------------------- claims about a limit of 0
\* C29: a scope whose limit is 0 always allows: a check of the Limiter for a
\* scope without a limit returns true, and a rule whose limit is 0 is never
\* refused by the rate limit check of the dispatcher, however many checks
\* there were and whenever.
C29_ZeroLimitAlwaysAllows ==
    /\ (last.op = "AllowUser" /\ limiter.userLimit = 0) => last.res
    /\ (last.op = "AllowChannel" /\ limiter.channelLimit = 0) => last.res
    /\ (last.op = "AllowGuild" /\ limiter.guildLimit = 0) => last.res
    /\ (last.op = "AllowGlobal" /\ limiter.globalLimit = 0) => last.res
    /\ handled.kind = "message" =>
           \A k \in 1..Len(handled.trail) :
               LET a == actions[handled.trail[k].rule]
               IN  (~a.HasRateLimit \/ a.RateLimit.Requests = 0)
                       => handled.trail[k].outcome # "ratelimit"

\* ------------------------------------------- claims about command rules
\* the content starts with the prefix followed by the command, the letters of
\* the command compared without regard to case
StartsWithCommand(content, command) ==
    LET n == Len(Prefix) + Len(command)
        token == SubSeq(content, Len(Prefix) + 1, n)
    IN  /\ Len(content) >= n
        /\ SubSeq(content, 1, Len(Prefix)) = Prefix
        /\ [k \in 1..Len(token) |-> ToLower(token[k])]
               = [k \in 1..Len(command) |-> ToLower(command[k])]

\* C30: a command rule matches a message exactly when the content starts with
\* prefix + command, the command compared case-insensitively: with the ping
\* command as the only rule, either manager finds the rule for a message if
\* and only if its content starts so.
C30_CommandMatchesPrefixAnyCase ==
    /\ handled.kind = "message" =>
           (handled.picked # 0 <=> StartsWithCommand(handled.ev.Content, PingRule.Command))
    /\ handled.kind = "manager" =>
           (handled.matched # 0 <=> StartsWithCommand(handled.ev.Content, PingRule.Command))

\* ------------------------------------------------ claims about the buckets
\* every bucket the Limiter holds, of any scope
BucketsOf(l) ==
    {l.userBuckets[k] : k \in DOMAIN l.userBuckets}
        \cup {l.channelBuckets[k] : k \in DOMAIN l.channelBuckets}
        \cup {l.guildBuckets[k] : k \in DOMAIN l.guildBuckets}
        \cup {l.globalBucket[k] : k \in DOMAIN l.globalBucket}

Carries(b, limit, window) == b.maxTokens = limit /\ b.window = window

\* C38: a limit changed by SetUserLimit, SetChannelLimit or SetGuildLimit
\* holds for every key of the scope from the next check on, keys with a
\* bucket included: the bucket a check decides on carries the limit and the
\* window the scope has at the time of the check, never earlier ones.
C38_NewLimitFromNextCheck ==
    [][/\ (/\ last'.op = "AllowUser" /\ limiter.userLimit # 0
           /\ last'.user \in DOMAIN limiter.userBuckets)
          => Carries(limiter.userBuckets[last'.user],
                     limiter.userLimit, limiter.userWindow)
       /\ (/\ last'.op = "AllowChannel" /\ limiter.channelLimit # 0
           /\ last'.channel \in DOMAIN limiter.channelBuckets)
          => Carries(limiter.channelBuckets[last'.channel],
                     limiter.channelLimit, limiter.channelWindow)
       /\ (/\ last'.op = "AllowGuild" /\ limiter.guildLimit # 0
           /\ last'.guild \in DOMAIN limiter.guildBuckets)
          => Carries(limiter.guildBuckets[last'.guild],
                     limiter.guildLimit, limiter.guildWindow)]_vars

\* the tokens a key has at time t: those of its bucket once the window is
\* accounted for, the whole limit when the key has no bucket yet
TokensLeft(buckets, k, limit, t) ==
    IF k \in DOMAIN buckets THEN bucket_reset(buckets[k], t).tokens ELSE limit

Quota(l, u, c, g, t) ==
    <<TokensLeft(l.userBuckets, u, l.userLimit, t),
      TokensLeft(l.channelBuckets, c, l.channelLimit, t),
      TokensLeft(l.guildBuckets, g, l.guildLimit, t),
      TokensLeft(l.globalBucket, "global", l.globalLimit, t)>>

\* C33: a combined Allow(user, channel, guild) that returns false consumes
\* no quota: the tokens of the user, the channel, the guild and the global
\* scope are after the call what they were before it.
C33_DeniedAllowConsumesNothing ==
    [][(last'.op = "Allow" /\ ~last'.res) =>
          Quota(limiter', last'.user, last'.channel, last'.guild, now')
              = Quota(limiter, last'.user, last'.channel, last'.guild, now)]_vars

\* ------------------------------------- claims about the order of the gates
\* the requests the rate limiter holds for the key of rule a and event ev
Counted(reqs, a, ev) ==
    LET key == RateKey(a, ev.UserID, ev.ChannelID, ev.GuildID)
    IN  IF key \in DOMAIN reqs THEN reqs[key] ELSE <<>>

C35_StopReturns == (sched.pc = "stopping") ~> (sched.pc = "idle")

\* C32: Stop of the Bot can be called any number of times, on a bot that was
\* started and on one that was not: every call that returns returns no error,
\* and the bot then reports that it is not running.
C32_StopAnyNumberOfTimes ==
    bot.last.op = "Stop" => (bot.last.err = "" /\ ~bot.running)

\* Stop has returned a second time in a row on a bot that had been started
C32_Witness ==
    /\ bot.last.op = "Stop" /\ bot.last.prev = "Stop"
    /\ bot.pc = "idle"
    /\ sweep.made > 0

\* ------------------------------------------- claims about the sessions
\* C36: IsAuthenticated never removes a session that has not expired: a
\* session that leaves the sessions map has its expiry behind it, also when
\* it was stored by a login that ran while an expiry check of the same user
\* was under way on the session before.
C36_OnlyExpiredSessionsRemoved ==
    [][\A u \in DOMAIN auth.sessions :
          u \notin DOMAIN auth'.sessions => now > auth.sessions[u]]_vars

\* ------------------------------------------- claims about the cleanup
\* the calls a user can make after a sweep: allow or remaining quota, at the
\* time of the call before or one tick later
LaterCalls ==
    SeqsUpTo([op : {"AllowUser", "GetUserRemaining"}, after : {0, 1}], MaxCalls)

\* the results of the calls s of user u, made one after another from time t
\* on the limiter l
RECURSIVE Replay(_, _, _, _)
Replay(l, u, t, s) ==
    IF s = <<>> THEN <<>>
    ELSE LET c == Head(s)
             at == t + c.after
         IN  IF c.op = "AllowUser"
             THEN LET r == AllowUser(l, u, at)
                  IN  <<[op |-> c.op, ok |-> r.ok]>> \o Replay(r.l, u, at, Tail(s))
             ELSE LET r == GetUserRemaining(l, u, at)
                  IN  <<[op |-> c.op, n |-> r.n]>> \o Replay(r.l, u, at, Tail(s))

\* C37: with the limits unchanged the cleanup sweep is invisible: whatever
\* allow and remaining-quota calls a user makes after a sweep, their results
\* are those the same calls have when the sweep did not run.
C37_CleanupInvisible ==
    [][last'.op = "Cleanup" =>
          \A u \in Users : \A s \in LaterCalls :
              Replay(limiter', u, now, s) = Replay(limiter, u, now, s)]_vars

\* ------------------------------------------- claims about removed jobs
\* GetJobInfo finds the job and ListJobs lists it
HasJob(sc, id) == JobID(id) \in DOMAIN sc.jobs

\* the job was registered under this entry id and has been removed: entry
\* ids are handed out in order and never again
Gone(id) == id < cron.nextID /\ ~HasJob(sched, id)

\* this step is a call RemoveJob("job-<id>")
RemoveJobOf(id) ==
    slog' # slog /\ slog'.op = "RemoveJob" /\ slog'.jobID = JobID(id)

\* this step starts a run of the job with this entry id
FireOf(id) ==
    \E job \in BagToSet(inflight') :
        job.id = id /\ CopiesIn(job, inflight') > CopiesIn(job, inflight)

\* C39: RemoveJob of a registered job returns nil and takes the job out of
\* the jobs and its entry out of cron; from then on the job is not listed, a
\* further RemoveJob of its id returns "job not found", and no run of it is
\* started.
C39_RemovedJobIsGone ==
    [][\A id \in 1..MaxEntries :
          /\ (RemoveJobOf(id) /\ HasJob(sched, id)) =>
                 /\ slog'.err = ""
                 /\ ~HasJob(sched', id)
                 /\ \A k \in 1..Len(cron'.entries) : cron'.entries[k].id # id
          /\ Gone(id) =>
                 /\ ~HasJob(sched', id)
                 /\ \A k \in 1..Len(cron'.entries) : cron'.entries[k].id # id
                 /\ ~FireOf(id)
                 /\ RemoveJobOf(id) => slog'.err = "job not found"]_vars

\* in a running scheduler a job was removed, and later a second RemoveJob of
\* its id has failed
C39_Witness ==
    /\ slog.op = "RemoveJob"
    /\ slog.err = "job not found"
    /\ slog.jobID = JobID(1)
    /\ Gone(1)
    /\ cron.running
    /\ now >= 2

\* ------------------------------------------- claims about the loaded rules
\* C40: once LoadFromConfig has returned, the scheduler holds a job for every
\* scheduled rule of the configuration that has a schedule, under the rule's
\* name and schedule, so that cron fires it when the scheduler runs.
C40_CountedRulesAreRegistered ==
    slog.op = "LoadFromConfig" =>
        \A i \in 1..Len(cfg) :
            IsScheduled(cfg[i]) =>
                \E id \in DOMAIN sched.jobs :
                    /\ sched.jobs[id].name = cfg[i].Name
                    /\ sched.jobs[id].schedule = cfg[i].Schedule

=============================================================================
